---- MODULE Spec2Model ----
(***************************************************************************)
(* Model of the callgrind out-file parser of iai-callgrind-runner           *)
(* (runner/callgrind/hashmap_parser.rs): HashMapParser::parse_single, the   *)
(* path normalizer make_path and the cost map it builds.                    *)
(*                                                                          *)
(* Text is modelled character by character: a string is a sequence of       *)
(* one-character strings, a line of the trace file is such a string.        *)
(***************************************************************************)
EXTENDS Integers, Sequences, FiniteSets, TLC

(***************************************************************************)
(* Bounds of the model                                                      *)
(***************************************************************************)
\* header lines parse_header may consume
MaxHeaderLines == 2
\* lines the loop of parse_single may read after the header
MaxLines == 4
\* lines of a recorded trace body (specification SpecPlain)
MaxPlainLines == 4
\* lines of each of the trace files parsed in parallel (specification SpecMulti)
MaxMultiLines == 2
\* lines of each of the trace files with large counts (specification SpecLarge)
MaxLargeLines == 3

(***************************************************************************)
(* Option<T>                                                                *)
(***************************************************************************)
None == [some |-> FALSE]
Some(x) == [some |-> TRUE, val |-> x]

(***************************************************************************)
(* The string functions of the standard library the parser calls            *)
(***************************************************************************)
Digits == <<"0", "1", "2", "3", "4", "5", "6", "7", "8", "9">>

\* char::is_ascii_digit
IsAsciiDigit(c) == \E i \in 1..10 : Digits[i] = c

\* the value of one decimal digit
DigitValue(c) == (CHOOSE i \in 1..10 : Digits[i] = c) - 1

\* char::is_whitespace, for the whitespace a trace line holds
IsWhitespace(c) == c = " "

\* str::is_empty
IsEmpty(s) == Len(s) = 0

\* str::starts_with(prefix)
StartsWith(s, prefix) ==
    /\ Len(s) >= Len(prefix)
    /\ SubSeq(s, 1, Len(prefix)) = prefix

\* str::starts_with(|c| c.is_ascii_digit())
StartsWithDigit(s) == Len(s) > 0 /\ IsAsciiDigit(s[1])

RECURSIVE TrimStart(_)
TrimStart(s) ==
    IF Len(s) > 0 /\ IsWhitespace(s[1]) THEN TrimStart(Tail(s)) ELSE s

RECURSIVE TrimEnd(_)
TrimEnd(s) ==
    IF Len(s) > 0 /\ IsWhitespace(s[Len(s)])
    THEN TrimEnd(SubSeq(s, 1, Len(s) - 1))
    ELSE s

\* str::trim
Trim(s) == TrimEnd(TrimStart(s))

\* the index of the first occurrence of the character c in s, 0 if there is none
FirstIndex(s, c) ==
    IF \E i \in 1..Len(s) : s[i] = c
    THEN CHOOSE i \in 1..Len(s) : s[i] = c /\ \A j \in 1..(i - 1) : s[j] # c
    ELSE 0

\* str::split_once(c): the text before and the text after the first c
SplitOnce(s, c) ==
    LET i == FirstIndex(s, c) IN
    IF i = 0
    THEN None
    ELSE Some([key |-> SubSeq(s, 1, i - 1), value |-> SubSeq(s, i + 1, Len(s))])

\* str::split_whitespace: the maximal runs of non-whitespace characters
RECURSIVE SplitWhitespace(_)
SplitWhitespace(s) ==
    LET t == TrimStart(s) IN
    IF Len(t) = 0
    THEN <<>>
    ELSE LET stop == FirstIndex(t, " ")
             word == IF stop = 0 THEN t ELSE SubSeq(t, 1, stop - 1)
             rest == IF stop = 0 THEN <<>> ELSE SubSeq(t, stop + 1, Len(t))
         IN <<word>> \o SplitWhitespace(rest)

\* Iterator::skip(n) over a sequence
Skip(seq, n) == IF n >= Len(seq) THEN <<>> ELSE SubSeq(seq, n + 1, Len(seq))

\* str::parse::<u64>: Some(number) for a non-empty run of digits, None otherwise
RECURSIVE DecimalValue(_)
DecimalValue(s) ==
    IF Len(s) = 0
    THEN 0
    ELSE 10 * DecimalValue(SubSeq(s, 1, Len(s) - 1)) + DigitValue(s[Len(s)])

ParseU64(s) ==
    IF Len(s) > 0 /\ \A i \in 1..Len(s) : IsAsciiDigit(s[i])
    THEN Some(DecimalValue(s))
    ELSE None

(***************************************************************************)
(* Paths (std::path) and SourcePath                                         *)
(***************************************************************************)
\* the project root the parser is constructed with: /r
ProjectRoot == <<"/", "r">>

\* the separator-free pieces of a path string, empty pieces dropped
RECURSIVE Pieces(_)
Pieces(s) ==
    IF Len(s) = 0
    THEN <<>>
    ELSE LET stop == FirstIndex(s, "/")
             piece == IF stop = 0 THEN s ELSE SubSeq(s, 1, stop - 1)
             rest == IF stop = 0 THEN <<>> ELSE SubSeq(s, stop + 1, Len(s))
         IN (IF Len(piece) = 0 THEN <<>> ELSE <<piece>>) \o Pieces(rest)

\* Component::RootDir
RootDir == <<"/">>

\* PathBuf::from(source): a path is the sequence of its components, the way
\* PathBuf compares; an absolute path starts with the RootDir component
PathBufFrom(s) ==
    IF StartsWith(s, <<"/">>) THEN <<RootDir>> \o Pieces(s) ELSE Pieces(s)

\* Path::is_absolute
IsAbsolute(path) == Len(path) > 0 /\ path[1] = RootDir

\* Path::strip_prefix(base): Some(the components after base), None if base
\* is no prefix of the path
StripPrefix(path, base) ==
    IF Len(path) >= Len(base) /\ SubSeq(path, 1, Len(base)) = base
    THEN Some(Skip(path, Len(base)))
    ELSE None

\* chars().take(n).collect::<String>()
Take(s, n) == IF Len(s) <= n THEN s ELSE SubSeq(s, 1, n)

\* the SourcePath enum
Unknown == [tag |-> "Unknown", path |-> <<>>]
Rust(path) == [tag |-> "Rust", path |-> path]
Relative(path) == [tag |-> "Relative", path |-> path]
Absolute(path) == [tag |-> "Absolute", path |-> path]

\* the length a toolchain build identifier is cut to
HashLen == 8

\* make_path without the strip_prefix of the project root
make_pathUnrooted(root, raw) ==
    IF raw = <<"?", "?", "?">>
    THEN Unknown
    ELSE LET buf == PathBufFrom(raw) IN
         IF IsAbsolute(buf)
         THEN LET components == Skip(buf, 1) IN
              IF Len(components) > 0 /\ components[1] = <<"r", "u", "s", "t", "c">>
              THEN LET new_path == <<RootDir, <<"r", "u", "s", "t", "c">> >>
                       pushed == IF Len(components) > 1
                                 THEN new_path \o <<Take(components[2], HashLen)>>
                                 ELSE new_path
                   IN Rust(pushed \o Skip(components, 2))
              ELSE Absolute(buf)
         ELSE Relative(buf)

\* make_path with the build identifier pushed whole
make_pathFullHash(root, raw) ==
    IF raw = <<"?", "?", "?">>
    THEN Unknown
    ELSE LET buf == PathBufFrom(raw)
             suffix == StripPrefix(buf, PathBufFrom(root))
         IN IF suffix.some
            THEN Relative(suffix.val)
            ELSE IF IsAbsolute(buf)
                 THEN LET components == Skip(buf, 1) IN
                      IF Len(components) > 0 /\ components[1] = <<"r", "u", "s", "t", "c">>
                      THEN Rust(<<RootDir>> \o components)
                      ELSE Absolute(buf)
                 ELSE Relative(buf)

make_path(root, source) ==
    IF source = <<"?", "?", "?">>
    THEN Unknown
    ELSE LET path == PathBufFrom(source)
             suffix == StripPrefix(path, PathBufFrom(root))
         IN IF suffix.some
            THEN Relative(suffix.val)
            ELSE IF IsAbsolute(path)
                 THEN LET components == Skip(path, 1) IN
                      IF Len(components) > 0 /\ components[1] = <<"r", "u", "s", "t", "c">>
                      THEN LET new_path == <<RootDir, <<"r", "u", "s", "t", "c">> >>
                               pushed == IF Len(components) > 1
                                         THEN new_path \o <<Take(components[2], HashLen)>>
                                         ELSE new_path
                           IN Rust(pushed \o Skip(components, 2))
                      ELSE Absolute(path)
                 ELSE Relative(path)

(***************************************************************************)
(* Result<T, E>                                                             *)
(***************************************************************************)
Ok(x) == [ok |-> TRUE, val |-> x]
Err(e) == [ok |-> FALSE, err |-> e]

(***************************************************************************)
(* Metrics: the costs of one cost line or of one map entry, in the order    *)
(* of the event kinds the header declares                                   *)
(***************************************************************************)
\* u64::MAX, scaled to the largest integer the model checker computes with
U64Max == 2147483647

\* the addition that wraps around beyond the largest count
WrappingAdd(a, b) == IF a > U64Max - b THEN a - (U64Max - b) - 1 ELSE a + b

\* u64::saturating_add
SaturatingAdd(a, b) == IF a > U64Max - b THEN U64Max ELSE a + b

\* the metrics prototype of a header: every declared event kind with cost 0
MetricsPrototype(kinds) ==
    [i \in 1..Len(kinds) |-> [kind |-> kinds[i], cost |-> 0]]

\* Metrics::add: element-wise addition
MetricsAdd(metrics, other) ==
    [i \in 1..Len(metrics) |->
        [kind |-> metrics[i].kind,
         cost |-> SaturatingAdd(metrics[i].cost,
                                IF i <= Len(other) THEN other[i].cost ELSE 0)]]

\* Metrics::add_iter_str: the columns are parsed as integers and added in the
\* order of the event kinds; a column that is no integer is an error
AddIterStr(metrics, columns) ==
    IF \E i \in 1..Len(metrics) : i <= Len(columns) /\ ~ParseU64(columns[i]).some
    THEN Err("ParseIntError")
    ELSE Ok([i \in 1..Len(metrics) |->
                IF i <= Len(columns)
                THEN [kind |-> metrics[i].kind,
                      cost |-> SaturatingAdd(metrics[i].cost, ParseU64(columns[i]).val)]
                ELSE metrics[i]])

\* Sentinel::matches: a sentinel pattern is given by the function names it matches
SentinelMatches(sentinel, func) == func \in sentinel

(***************************************************************************)
(* Id, CurrentId, CfnRecord, Value, the maps                                *)
(***************************************************************************)
Id(obj, file, func) == [obj |-> obj, file |-> file, func |-> func]

\* CurrentId::default()
CurrentIdDefault == [obj |-> None, file |-> None, func |-> None]

\* CfnRecord::default()
CfnRecordDefault == [obj |-> None, file |-> None, id |-> None, calls |-> 0]

\* impl From<Id> for CurrentId
CurrentIdFrom(value) ==
    [obj |-> value.obj, file |-> value.file, func |-> Some(value.func)]

\* impl TryFrom<CurrentId> for Id
IdTryFrom(value) ==
    IF value.func.some
    THEN Ok(Id(value.obj, value.file, value.func.val))
    ELSE Err("Missing function")

Value(metrics) == [metrics |-> metrics]

\* HashMap::new()
EmptyMap == [id \in {} |-> Value(<<>>)]

\* entry(id).and_modify(|value| value.metrics.add(&metrics)).or_insert(Value { metrics }),
\* and the get_mut / insert pair that does the same for fn_totals
AddToEntry(map, id, metrics) ==
    IF id \in DOMAIN map
    THEN [map EXCEPT ![id] = Value(MetricsAdd(@.metrics, metrics))]
    ELSE map @@ (id :> Value(metrics))

\* the totals of the call sites added to the totals of the functions
CorrectInclusiveTotalsAdding(fn, cfn) ==
    [id \in (DOMAIN fn) \cup (DOMAIN cfn) |->
        IF id \in DOMAIN cfn
        THEN IF id \in DOMAIN fn
             THEN Value(MetricsAdd(fn[id].metrics, cfn[id].metrics))
             ELSE cfn[id]
        ELSE fn[id]]

\* for (key, value) in cfn_totals { fn_totals.insert(key, value); }
CorrectInclusiveTotals(fn, cfn) ==
    [id \in (DOMAIN fn) \cup (DOMAIN cfn) |->
        IF id \in DOMAIN cfn THEN cfn[id] ELSE fn[id]]

\* Error::ParseError((path, message))
ParseError(file, message) == [type |-> "ParseError", path |-> file, message |-> message]

(***************************************************************************)
(* The directive keys and the lines of the trace files of the model         *)
(***************************************************************************)
K_ob == <<"o", "b">>
K_fl == <<"f", "l">>
K_fn == <<"f", "n">>
K_fi == <<"f", "i">>
K_fe == <<"f", "e">>
K_cob == <<"c", "o", "b">>
K_cfi == <<"c", "f", "i">>
K_cfl == <<"c", "f", "l">>
K_cfn == <<"c", "f", "n">>
K_calls == <<"c", "a", "l", "l", "s">>
K_jump == <<"j", "u", "m", "p">>
K_jcnd == <<"j", "c", "n", "d">>
K_jfi == <<"j", "f", "i">>
K_jfn == <<"j", "f", "n">>
K_totals == <<"t", "o", "t", "a", "l", "s", ":">>
K_summary == <<"s", "u", "m", "m", "a", "r", "y", ":">>
K_positions == <<"p", "o", "s", "i", "t", "i", "o", "n", "s">>
K_events == <<"e", "v", "e", "n", "t", "s">>

\* the keys of the match arms of parse_single
MatchedKeys ==
    {K_ob, K_fl, K_fn, K_fi, K_fe, K_cob, K_cfi, K_cfl, K_cfn, K_calls,
     K_jump, K_jcnd, K_jfi, K_jfn}

\* "ob=/r/o"
L_ob == <<"o", "b", "=", "/", "r", "/", "o">>
\* " fl=/r/a"
L_fl == <<" ", "f", "l", "=", "/", "r", "/", "a">>
\* "fn=f"
L_fn_f == <<"f", "n", "=", "f">>
\* "fn=g "
L_fn_g == <<"f", "n", "=", "g", " ">>
\* "fi=/x/i"
L_fi == <<"f", "i", "=", "/", "x", "/", "i">>
\* "fe=/x/i"
L_fe == <<"f", "e", "=", "/", "x", "/", "i">>
\* "cob=/r/p"
L_cob == <<"c", "o", "b", "=", "/", "r", "/", "p">>
\* "cfi=c"
L_cfi == <<"c", "f", "i", "=", "c">>
\* "cfl=c"
L_cfl == <<"c", "f", "l", "=", "c">>
\* "cfn=g"
L_cfn == <<"c", "f", "n", "=", "g">>
\* "calls=1 0"
L_calls == <<"c", "a", "l", "l", "s", "=", "1", " ", "0">>
\* "calls=x"
L_calls_bad == <<"c", "a", "l", "l", "s", "=", "x">>
\* "0 3 4"
L_cost == <<"0", " ", "3", " ", "4">>
\* "1 5"
L_cost_short == <<"1", " ", "5">>
\* "1 x"
L_cost_bad == <<"1", " ", "x">>
\* a cost line whose count is 2 below the largest count
L_cost_large == <<"0", " ", "2", "1", "4", "7", "4", "8", "3", "6", "4", "5">>
\* "jump=1 2"
L_jump == <<"j", "u", "m", "p", "=", "1", " ", "2">>
\* "jcnd=1/2 3"
L_jcnd == <<"j", "c", "n", "d", "=", "1", "/", "2", " ", "3">>
\* "jfi=a"
L_jfi == <<"j", "f", "i", "=", "a">>
\* "jfn=f"
L_jfn == <<"j", "f", "n", "=", "f">>
\* "totals: 8"
L_totals == <<"t", "o", "t", "a", "l", "s", ":", " ", "8">>
\* "summary: 8"
L_summary == <<"s", "u", "m", "m", "a", "r", "y", ":", " ", "8">>
\* " "
L_blank == <<" ">>
\* "# c=d"
L_comment == <<"#", " ", "c", "=", "d">>
\* "xyz"
L_word == <<"x", "y", "z">>
\* "k=v"
L_unknown_key == <<"k", "=", "v">>
\* "positions: line"
H_positions == <<"p", "o", "s", "i", "t", "i", "o", "n", "s", ":", " ", "l", "i", "n", "e">>
\* "positions: instr line"
H_positions2 == <<"p", "o", "s", "i", "t", "i", "o", "n", "s", ":", " ", "i", "n", "s", "t", "r", " ", "l", "i", "n", "e">>
\* "events: Ir"
H_events == <<"e", "v", "e", "n", "t", "s", ":", " ", "I", "r">>
\* "events: Ir Dw"
H_events2 == <<"e", "v", "e", "n", "t", "s", ":", " ", "I", "r", " ", "D", "w">>
\* "version: 1"
H_version == <<"v", "e", "r", "s", "i", "o", "n", ":", " ", "1">>

\* the lines a header is made of
HeaderLines == {H_positions, H_events, H_events2, H_version, L_comment}

\* the same with a second layout of the position columns
PlainHeaderLines == HeaderLines \cup {H_positions2}

\* the directives that build a call-site record
CalleeLines == {L_cob, L_cfi, L_cfl, L_cfn, L_calls, L_calls_bad}

\* the lines the loop of parse_single ignores
IgnoredLines ==
    {L_jump, L_jcnd, L_jfi, L_jfn, L_totals, L_summary, L_blank, L_comment}

\* body lines without callee directives
PlainLines ==
    {L_ob, L_fl, L_fn_f, L_fn_g, L_fi, L_cost, L_cost_short, L_jump, L_comment}

\* every line the loop may read
Lines ==
    {L_ob, L_fl, L_fn_f, L_fn_g, L_fi, L_fe, L_cost, L_cost_bad, L_word, L_unknown_key}
    \cup CalleeLines \cup IgnoredLines

\* the paths of the trace files
TracePaths == {"callgrind.f.out", "callgrind.f.t1.out"}

\* the paths of the trace files with large counts
LargeFiles == {"callgrind.l.out", "callgrind.l.t1.out"}

\* the function names the sentinel patterns of the model match
Sentinels == {{<<"g">>}}

\* line.trim() and line.split_once('=') of every line, computed once
LineTable ==
    [l \in Lines \cup PlainLines \cup {L_cost_large} |->
        [trimmed |-> Trim(l), split |-> SplitOnce(Trim(l), "=")]]

(***************************************************************************)
(* The state of one call of HashMapParser::parse_single                     *)
(***************************************************************************)
VARIABLES
    pc,                  \* "header": in parse_header, "body": in the loop, "done": returned
    path,                \* the argument: the path of the trace file
    sentinel,            \* self.sentinel: Option<Sentinel>
    positions_prototype, \* parse_header: the declared position columns, if any
    metrics_prototype,   \* parse_header: the prototype of the declared event kinds, if any
    header_read,         \* the number of lines parse_header has consumed
    is_header,           \* the flag of the loop: still before the first key=value line
    line,                \* the line the loop read last, trimmed
    lines_read,          \* the number of lines the loop has read
    current_id,          \* CurrentId
    cfn_record,          \* Option<CfnRecord>
    cfn_totals,          \* HashMap<Id, Value>
    fn_totals,           \* HashMap<Id, Value>
    sentinel_key,        \* Option<Id>
    result,              \* what parse_single returned, or that it panicked
    trace                \* the lines the loop has read, in the specification that records them

\* the state of one call of parse_single
parse_vars ==
    <<pc, path, sentinel, positions_prototype, metrics_prototype, header_read,
      is_header, line, lines_read, current_id, cfn_record, cfn_totals, fn_totals,
      sentinel_key, result, trace>>

(***************************************************************************)
(* The state of the other operations of the model                           *)
(***************************************************************************)
VARIABLES
    parts,               \* CallgrindMap::add_mut: the maps as they were parsed
    maps,                \* CallgrindMap::add_mut: the maps, as the merges have left them
    holds                \* for each map, how often each part has been merged into it

merge_vars == <<parts, maps, holds>>

\* no map is being merged
MergeIdle ==
    /\ parts = <<>>
    /\ maps = <<>>
    /\ holds = <<>>

VARIABLES
    source,              \* make_path: the raw path
    normalized,          \* make_path: the SourcePath of source, once it is made
    renormalized         \* make_path: the SourcePath of the path normalized holds

path_vars == <<source, normalized, renormalized>>

\* no path is being normalized
PathIdle ==
    /\ source = <<>>
    /\ normalized = None
    /\ renormalized = None

VARIABLES
    running,             \* parallel parses: the file whose parse takes the next step
    suspended,           \* parallel parses: the arguments and locals of the other parses
    accumulator,         \* parallel parses: the CallgrindMap the results are merged into
    merged               \* parallel parses: the files whose result has been merged

multi_vars == <<running, suspended, accumulator, merged>>

\* a single call of parse_single: no file is parsed in parallel
NoFile == ""

MultiIdle ==
    /\ running = NoFile
    /\ suspended = <<>>
    /\ accumulator = <<>>
    /\ merged = {}

VARIABLES
    given,               \* benchmark run: the regression settings of the command line or the library
    config,              \* benchmark run: the regression configuration made of them
    benchmarks,          \* benchmark run: the old and new metrics of the benchmarks, in order
    executed,            \* benchmark run: the number of benchmarks executed
    regressions,         \* benchmark run: the violations recorded
    outcome              \* benchmark run: how the run ended

run_vars == <<given, config, benchmarks, executed, regressions, outcome>>

\* no benchmark run
RunIdle ==
    /\ given = <<>>
    /\ config = None
    /\ benchmarks = <<>>
    /\ executed = 0
    /\ regressions = <<>>
    /\ outcome = ""

VARIABLES
    arguments,           \* baseline store: the baseline arguments of the command line
    original,            \* baseline store: the stored baselines when the run starts
    stored,              \* baseline store: the stored baselines, by name
    current,             \* baseline store: the results of the current run
    verdict,             \* baseline store: the comparison target and the result of the check
    phase                \* baseline store: the step the run has reached

store_vars == <<arguments, original, stored, current, verdict, phase>>

\* no run with a baseline
StoreIdle ==
    /\ arguments = <<>>
    /\ original = <<>>
    /\ stored = <<>>
    /\ current = None
    /\ verdict = None
    /\ phase = ""

VARIABLES
    call_args,           \* a call of a function: its arguments
    call_result          \* a call of a function: its result, once it has returned

call_vars == <<call_args, call_result>>

\* no call
CallIdle ==
    /\ call_args = <<>>
    /\ call_result = None

\* everything that is no state of a call of parse_single
outside == <<merge_vars, path_vars, multi_vars, run_vars, store_vars, call_vars>>

OutsideIdle == MergeIdle /\ PathIdle /\ MultiIdle /\ RunIdle /\ StoreIdle /\ CallIdle

vars == <<parse_vars, outside>>

\* the arguments and the configuration of the header, which the loop never writes
inputs == <<path, sentinel, positions_prototype, metrics_prototype, header_read>>

\* the mutable locals of the loop besides is_header and line
locals == <<current_id, cfn_record, cfn_totals, fn_totals, sentinel_key>>

Running == [kind |-> "Running"]
Returned(r) == [kind |-> "Returned", value |-> r]
Panicked(message) == [kind |-> "Panic", message |-> message]

\* let mut current_id = ...; ... let mut is_header = true;
LocalsAtStart ==
    /\ is_header = TRUE
    /\ line = <<>>
    /\ lines_read = 0
    /\ current_id = CurrentIdDefault
    /\ cfn_record = None
    /\ cfn_totals = EmptyMap
    /\ fn_totals = EmptyMap
    /\ sentinel_key = None

\* the state at the call, before parse_header reads the first line
InitCall ==
    /\ pc = "header"
    /\ positions_prototype = None
    /\ metrics_prototype = None
    /\ header_read = 0
    /\ result = Running
    /\ LocalsAtStart

Init ==
    /\ path \in TracePaths
    /\ sentinel \in {None} \cup {Some(p) : p \in Sentinels}
    /\ trace = None
    /\ InitCall
    /\ OutsideIdle

(***************************************************************************)
(* parse_header: the header directives up to the hand-over to the loop.     *)
(* The hand-over may happen before any line that the header does not need:  *)
(* the loop skips what is left of the header (lines without '=').           *)
(***************************************************************************)
ParseHeaderLine(l) ==
    /\ pc = "header"
    /\ header_read < MaxHeaderLines
    /\ header_read' = header_read + 1
    /\ LET t == Trim(l)
           split == SplitOnce(t, ":")
       IN IF IsEmpty(t) \/ StartsWith(t, <<"#">>) \/ ~split.some
          THEN UNCHANGED <<positions_prototype, metrics_prototype>>
          ELSE IF Trim(split.val.key) = K_positions
          THEN /\ positions_prototype' = Some(SplitWhitespace(split.val.value))
               /\ UNCHANGED metrics_prototype
          ELSE IF Trim(split.val.key) = K_events
          THEN /\ metrics_prototype' = Some(MetricsPrototype(SplitWhitespace(split.val.value)))
               /\ UNCHANGED positions_prototype
          ELSE UNCHANGED <<positions_prototype, metrics_prototype>>
    /\ UNCHANGED <<pc, path, sentinel, is_header, line, lines_read, locals, result, trace,
                   outside>>

\* what parse_header returns: the configuration, or an error when the position
\* columns or the event kinds are not declared
ParseHeaderResult ==
    IF positions_prototype.some /\ metrics_prototype.some
    THEN Ok([positions_prototype |-> positions_prototype.val,
             metrics_prototype |-> metrics_prototype.val])
    ELSE Err("missing header declaration")

\* ParseHeaderReturn with the error of parse_header ignored
ParseHeaderReturnUnchecked ==
    /\ pc = "header"
    /\ header_read' = 0
    /\ pc' = "body"
    /\ UNCHANGED <<result, path, sentinel, positions_prototype, metrics_prototype,
                   is_header, line, lines_read, locals, trace, outside>>

\* let config = parse_header(&mut iter)
\*     .map_err(|error| Error::ParseError((path.to_owned(), error.to_string())))?;
ParseHeaderReturn ==
    /\ pc = "header"
    /\ header_read' = 0
    /\ IF ParseHeaderResult.ok
       THEN /\ pc' = "body"
            /\ UNCHANGED result
       ELSE /\ pc' = "done"
            /\ result' = Returned(Err(ParseError(path, ParseHeaderResult.err)))
    /\ UNCHANGED <<path, sentinel, positions_prototype, metrics_prototype,
                   is_header, line, lines_read, locals, trace, outside>>

(***************************************************************************)
(* The loop of parse_single, one action for each arm                        *)
(***************************************************************************)
LineBound ==
    IF running \in LargeFiles
    THEN MaxLargeLines
    ELSE IF running # NoFile
    THEN MaxMultiLines
    ELSE IF trace.some THEN MaxPlainLines ELSE MaxLines

Record(l) == IF trace.some THEN Some(Append(trace.val, l)) ELSE trace

\* let line = line.trim();
Trimmed(l) == LineTable[l].trimmed

\* the loop reads the line l
Reads(l) ==
    /\ pc = "body"
    /\ lines_read < LineBound
    /\ lines_read' = lines_read + 1
    /\ line' = Trimmed(l)
    /\ trace' = Record(l)

\* line.is_empty() || line.starts_with('#')
IsSkipped(l) == IsEmpty(Trimmed(l)) \/ StartsWith(Trimmed(l), <<"#">>)

\* line.split_once('=')
Split(l) == LineTable[l].split

\* the line reaches the match with Some((key, _)), key one of keys
MatchesKey(l, keys) ==
    /\ ~IsSkipped(l)
    /\ Split(l).some
    /\ Split(l).val.key \in keys

\* the line reaches the match with None
MatchesNone(l) ==
    /\ ~IsSkipped(l)
    /\ ~is_header
    /\ ~Split(l).some

ValueOf(l) == Split(l).val.value

\* parse_single ends: its locals are dropped
Drop ==
    /\ pc' = "done"
    /\ is_header' = TRUE
    /\ current_id' = CurrentIdDefault
    /\ cfn_record' = None
    /\ cfn_totals' = EmptyMap
    /\ fn_totals' = EmptyMap
    /\ sentinel_key' = None

Panic(message) ==
    /\ result' = Panicked(message)
    /\ Drop

Return(value) ==
    /\ result' = Returned(value)
    /\ Drop

Continue == UNCHANGED <<pc, result>>

\* if line.is_empty() || line.starts_with('#') { continue; }
SkipLine(l) ==
    /\ Reads(l)
    /\ IsSkipped(l)
    /\ Continue
    /\ UNCHANGED <<outside, inputs, is_header, locals>>

\* SkipHeaderLine with the header ended by every line that is not skipped
SkipHeaderLineSwitching(l) ==
    /\ Reads(l)
    /\ ~IsSkipped(l)
    /\ is_header
    /\ ~Split(l).some
    /\ Continue
    /\ is_header' = FALSE
    /\ UNCHANGED <<outside, inputs, locals>>

\* still in the header and the line cannot be split around '=': continue
SkipHeaderLine(l) ==
    /\ Reads(l)
    /\ ~IsSkipped(l)
    /\ is_header
    /\ ~Split(l).some
    /\ Continue
    /\ UNCHANGED <<outside, inputs, is_header, locals>>

ObDirective(l) ==
    /\ Reads(l)
    /\ MatchesKey(l, {K_ob})
    /\ is_header' = FALSE
    /\ current_id' = [current_id EXCEPT !.obj = Some(make_path(ProjectRoot, ValueOf(l)))]
    /\ Continue
    /\ UNCHANGED <<outside, inputs, cfn_record, cfn_totals, fn_totals, sentinel_key>>

FlDirective(l) ==
    /\ Reads(l)
    /\ MatchesKey(l, {K_fl})
    /\ is_header' = FALSE
    /\ current_id' = [current_id EXCEPT !.file = Some(make_path(ProjectRoot, ValueOf(l)))]
    /\ Continue
    /\ UNCHANGED <<outside, inputs, cfn_record, cfn_totals, fn_totals, sentinel_key>>

\* FnDirective with the sentinel recorded whatever the function name
FnDirectiveAnyName(l) ==
    /\ Reads(l)
    /\ MatchesKey(l, {K_fn})
    /\ is_header' = FALSE
    /\ LET func == ValueOf(l)
           id == [current_id EXCEPT !.func = Some(func)]
       IN /\ current_id' = id
          /\ sentinel_key' = IF sentinel.some THEN Some(IdTryFrom(id).val) ELSE sentinel_key
    /\ Continue
    /\ UNCHANGED <<outside, inputs, cfn_record, cfn_totals, fn_totals>>

FnDirective(l) ==
    /\ Reads(l)
    /\ MatchesKey(l, {K_fn})
    /\ is_header' = FALSE
    /\ LET func == ValueOf(l)
           id == [current_id EXCEPT !.func = Some(func)]
       IN /\ current_id' = id
          /\ sentinel_key' =
                IF sentinel.some /\ SentinelMatches(sentinel.val, func)
                THEN Some(IdTryFrom(id).val)
                ELSE sentinel_key
    /\ Continue
    /\ UNCHANGED <<outside, inputs, cfn_record, cfn_totals, fn_totals>>

\* InlineDirective that starts a new context: the function is forgotten
InlineDirectiveResetting(l) ==
    /\ Reads(l)
    /\ MatchesKey(l, {K_fi, K_fe})
    /\ is_header' = FALSE
    /\ current_id' = [CurrentIdDefault EXCEPT !.file = Some(make_path(ProjectRoot, ValueOf(l)))]
    /\ Continue
    /\ UNCHANGED <<outside, inputs, cfn_record, cfn_totals, fn_totals, sentinel_key>>

InlineDirective(l) ==
    /\ Reads(l)
    /\ MatchesKey(l, {K_fi, K_fe})
    /\ is_header' = FALSE
    /\ current_id' = [current_id EXCEPT !.file = Some(make_path(ProjectRoot, ValueOf(l)))]
    /\ Continue
    /\ UNCHANGED <<outside, inputs, cfn_record, cfn_totals, fn_totals, sentinel_key>>

\* cfn_record.get_or_insert(CfnRecord::default())
GetOrInsert(record) == IF record.some THEN record.val ELSE CfnRecordDefault

CobDirective(l) ==
    /\ Reads(l)
    /\ MatchesKey(l, {K_cob})
    /\ is_header' = FALSE
    /\ cfn_record' =
          Some([GetOrInsert(cfn_record) EXCEPT
                   !.obj = Some(make_path(ProjectRoot, ValueOf(l)))])
    /\ Continue
    /\ UNCHANGED <<outside, inputs, current_id, cfn_totals, fn_totals, sentinel_key>>

CalleeFileDirective(l) ==
    /\ Reads(l)
    /\ MatchesKey(l, {K_cfi, K_cfl})
    /\ is_header' = FALSE
    /\ cfn_record' =
          Some([GetOrInsert(cfn_record) EXCEPT
                   !.file = Some(make_path(ProjectRoot, ValueOf(l)))])
    /\ Continue
    /\ UNCHANGED <<outside, inputs, current_id, cfn_totals, fn_totals, sentinel_key>>

\* Option::take().or(other)
TakeOr(option, other) == IF option.some THEN option ELSE other

\* CfnDirective with the values of cob=, cfi= and cfl= read but not taken
CfnDirectiveKeepingValues(l) ==
    /\ Reads(l)
    /\ MatchesKey(l, {K_cfn})
    /\ is_header' = FALSE
    /\ LET record == GetOrInsert(cfn_record) IN
       cfn_record' =
          Some([record EXCEPT
                   !.id = Some(Id(TakeOr(record.obj, current_id.obj),
                                  TakeOr(record.file, current_id.file),
                                  ValueOf(l)))])
    /\ Continue
    /\ UNCHANGED <<outside, inputs, current_id, cfn_totals, fn_totals, sentinel_key>>

CfnDirective(l) ==
    /\ Reads(l)
    /\ MatchesKey(l, {K_cfn})
    /\ is_header' = FALSE
    /\ LET record == GetOrInsert(cfn_record) IN
       cfn_record' =
          Some([record EXCEPT
                   !.id = Some(Id(TakeOr(record.obj, current_id.obj),
                                  TakeOr(record.file, current_id.file),
                                  ValueOf(l))),
                   !.obj = None,
                   !.file = None])
    /\ Continue
    /\ UNCHANGED <<outside, inputs, current_id, cfn_totals, fn_totals, sentinel_key>>

\* calls.split_ascii_whitespace().take(1).map(|s| s.parse::<u64>().unwrap()).sum()
CallsOf(value) ==
    LET words == SplitWhitespace(value) IN
    IF Len(words) = 0 THEN Some(0) ELSE ParseU64(words[1])

CallsDirective(l) ==
    /\ Reads(l)
    /\ MatchesKey(l, {K_calls})
    /\ IF ~cfn_record.some
       THEN Panic("Valid calls line")
       ELSE IF ~CallsOf(ValueOf(l)).some
       THEN Panic("called Result::unwrap() on an Err value")
       ELSE /\ cfn_record' = Some([cfn_record.val EXCEPT !.calls = CallsOf(ValueOf(l)).val])
            /\ is_header' = FALSE
            /\ Continue
            /\ UNCHANGED <<current_id, cfn_totals, fn_totals, sentinel_key>>
    /\ UNCHANGED <<outside, inputs>>

\* LineMetrics with the position columns counted as costs
LineMetricsNoSkip(l) ==
    AddIterStr(metrics_prototype.val, SplitWhitespace(Trimmed(l)))

\* the metrics of a cost line: the columns after the position columns
LineMetrics(l) ==
    AddIterStr(metrics_prototype.val,
               Skip(SplitWhitespace(Trimmed(l)), Len(positions_prototype.val)))

\* CostLine with the pending call-site record left out of the fold
CostLineIgnoringRecord(l) ==
    /\ Reads(l)
    /\ MatchesNone(l)
    /\ StartsWithDigit(Trimmed(l))
    /\ LET metrics == LineMetrics(l)
           id == IdTryFrom(current_id)
       IN IF ~metrics.ok
          THEN Return(Err(metrics.err))
          ELSE IF ~id.ok
          THEN Panic("A valid id")
          ELSE /\ cfn_record' = None
               /\ fn_totals' = AddToEntry(fn_totals, id.val, metrics.val)
               /\ current_id' = CurrentIdFrom(id.val)
               /\ Continue
               /\ UNCHANGED <<cfn_totals, sentinel_key, is_header>>
    /\ UNCHANGED <<outside, inputs>>

\* CostLine with the pending call-site record read but not taken
CostLineKeepingRecord(l) ==
    /\ Reads(l)
    /\ MatchesNone(l)
    /\ StartsWithDigit(Trimmed(l))
    /\ LET metrics == LineMetrics(l)
           id == IdTryFrom(current_id)
       IN IF ~metrics.ok
          THEN Return(Err(metrics.err))
          ELSE IF cfn_record.some /\ ~cfn_record.val.id.some
          THEN Panic("cfn record id must be present")
          ELSE IF ~id.ok
          THEN Panic("A valid id")
          ELSE /\ cfn_totals' =
                     IF cfn_record.some
                     THEN AddToEntry(cfn_totals, cfn_record.val.id.val, metrics.val)
                     ELSE cfn_totals
               /\ fn_totals' = AddToEntry(fn_totals, id.val, metrics.val)
               /\ current_id' = CurrentIdFrom(id.val)
               /\ Continue
               /\ UNCHANGED <<cfn_record, sentinel_key, is_header>>
    /\ UNCHANGED <<outside, inputs>>

\* CostLine with the line of a pending call-site record counted for the
\* callee alone
CostLineCalleeOnly(l) ==
    /\ Reads(l)
    /\ MatchesNone(l)
    /\ StartsWithDigit(Trimmed(l))
    /\ LET metrics == LineMetrics(l)
           id == IdTryFrom(current_id)
       IN IF ~metrics.ok
          THEN Return(Err(metrics.err))
          ELSE IF cfn_record.some /\ ~cfn_record.val.id.some
          THEN Panic("cfn record id must be present")
          ELSE IF ~id.ok
          THEN Panic("A valid id")
          ELSE /\ cfn_totals' =
                     IF cfn_record.some
                     THEN AddToEntry(cfn_totals, cfn_record.val.id.val, metrics.val)
                     ELSE cfn_totals
               /\ cfn_record' = None
               /\ fn_totals' =
                     IF cfn_record.some
                     THEN fn_totals
                     ELSE AddToEntry(fn_totals, id.val, metrics.val)
               /\ current_id' = CurrentIdFrom(id.val)
               /\ Continue
               /\ UNCHANGED <<sentinel_key, is_header>>
    /\ UNCHANGED <<outside, inputs>>

\* None if line.starts_with(|c: char| c.is_ascii_digit())
CostLine(l) ==
    /\ Reads(l)
    /\ MatchesNone(l)
    /\ StartsWithDigit(Trimmed(l))
    /\ LET metrics == LineMetrics(l)
           id == IdTryFrom(current_id)
       IN IF ~metrics.ok
          THEN Return(Err(metrics.err))
          ELSE IF cfn_record.some /\ ~cfn_record.val.id.some
          THEN Panic("cfn record id must be present")
          ELSE IF ~id.ok
          THEN Panic("A valid id")
          ELSE /\ cfn_totals' =
                     IF cfn_record.some
                     THEN AddToEntry(cfn_totals, cfn_record.val.id.val, metrics.val)
                     ELSE cfn_totals
               /\ cfn_record' = None
               /\ fn_totals' = AddToEntry(fn_totals, id.val, metrics.val)
               /\ current_id' = CurrentIdFrom(id.val)
               /\ Continue
               /\ UNCHANGED <<sentinel_key, is_header>>
    /\ UNCHANGED <<outside, inputs>>

\* JumpDirective taken as the end of a call site: the pending record is dropped
JumpDirectiveClearingRecord(l) ==
    /\ Reads(l)
    /\ MatchesKey(l, {K_jump, K_jcnd, K_jfi, K_jfn})
    /\ is_header' = FALSE
    /\ cfn_record' = None
    /\ Continue
    /\ UNCHANGED <<outside, inputs, current_id, cfn_totals, fn_totals, sentinel_key>>

\* Some(("jump" | "jcnd" | "jfi" | "jfn", _)): ignored
JumpDirective(l) ==
    /\ Reads(l)
    /\ MatchesKey(l, {K_jump, K_jcnd, K_jfi, K_jfn})
    /\ is_header' = FALSE
    /\ Continue
    /\ UNCHANGED <<outside, inputs, locals>>

\* None if line.starts_with("totals:") || line.starts_with("summary:"): ignored
TotalsLine(l) ==
    /\ Reads(l)
    /\ MatchesNone(l)
    /\ ~StartsWithDigit(Trimmed(l))
    /\ StartsWith(Trimmed(l), K_totals) \/ StartsWith(Trimmed(l), K_summary)
    /\ Continue
    /\ UNCHANGED <<outside, inputs, is_header, locals>>

\* Some(_) | None => panic!("Malformed line: '{line}'")
MalformedLine(l) ==
    /\ Reads(l)
    /\ ~IsSkipped(l)
    /\ IF Split(l).some
       THEN Split(l).val.key \notin MatchedKeys
       ELSE /\ ~is_header
            /\ ~StartsWithDigit(Trimmed(l))
            /\ ~StartsWith(Trimmed(l), K_totals)
            /\ ~StartsWith(Trimmed(l), K_summary)
    /\ Panic([text |-> "Malformed line", line |-> Trimmed(l)])
    /\ UNCHANGED <<outside, inputs>>

\* the file has no more lines: the totals are corrected and the map is returned
Finish ==
    /\ pc = "body"
    /\ line' = <<>>
    /\ Return(Ok([config |-> ParseHeaderResult.val,
                  map |-> CorrectInclusiveTotals(fn_totals, cfn_totals),
                  sentinel |-> sentinel,
                  sentinel_key |-> sentinel_key]))
    /\ UNCHANGED <<outside, inputs, lines_read, trace>>

Next ==
    \/ \E l \in HeaderLines : ParseHeaderLine(l)
    \/ ParseHeaderReturn
    \/ \E l \in Lines : SkipLine(l)
    \/ \E l \in Lines : SkipHeaderLine(l)
    \/ \E l \in Lines : ObDirective(l)
    \/ \E l \in Lines : FlDirective(l)
    \/ \E l \in Lines : FnDirective(l)
    \/ \E l \in Lines : InlineDirective(l)
    \/ \E l \in Lines : CobDirective(l)
    \/ \E l \in Lines : CalleeFileDirective(l)
    \/ \E l \in Lines : CfnDirective(l)
    \/ \E l \in Lines : CallsDirective(l)
    \/ \E l \in Lines : CostLine(l)
    \/ \E l \in Lines : JumpDirective(l)
    \/ \E l \in Lines : TotalsLine(l)
    \/ \E l \in Lines : MalformedLine(l)
    \/ Finish

Spec == Init /\ [][Next]_vars

(***************************************************************************)
(* The same parser on trace bodies without callee directives, the lines     *)
(* read being recorded                                                      *)
(***************************************************************************)
InitPlain ==
    /\ path \in TracePaths
    /\ sentinel = None
    /\ trace = Some(<<>>)
    /\ InitCall
    /\ OutsideIdle

NextPlain ==
    \/ \E l \in PlainHeaderLines : ParseHeaderLine(l)
    \/ ParseHeaderReturn
    \/ \E l \in PlainLines : SkipLine(l)
    \/ \E l \in PlainLines : SkipHeaderLine(l)
    \/ \E l \in PlainLines : ObDirective(l)
    \/ \E l \in PlainLines : FlDirective(l)
    \/ \E l \in PlainLines : FnDirective(l)
    \/ \E l \in PlainLines : InlineDirective(l)
    \/ \E l \in PlainLines : CostLine(l)
    \/ \E l \in PlainLines : JumpDirective(l)
    \/ Finish

SpecPlain == InitPlain /\ [][NextPlain]_vars

(***************************************************************************)
(* The same parser on trace bodies with calls, the lines read being         *)
(* recorded                                                                 *)
(***************************************************************************)
\* body lines of functions that call g
CallLines == {L_ob, L_fn_f, L_fn_g, L_cfn, L_cost}

NextCallee ==
    \/ \E l \in HeaderLines : ParseHeaderLine(l)
    \/ ParseHeaderReturn
    \/ \E l \in CallLines : SkipHeaderLine(l)
    \/ \E l \in CallLines : ObDirective(l)
    \/ \E l \in CallLines : FnDirective(l)
    \/ \E l \in CallLines : CfnDirective(l)
    \/ \E l \in CallLines : CostLine(l)
    \/ Finish

SpecCallee == InitPlain /\ [][NextCallee]_vars

(***************************************************************************)
(* What the claims are stated with: the text of a line, the steps of the    *)
(* loop, the metrics of a cost line                                         *)
(***************************************************************************)
\* the (trimmed) line t holds a key=value separator
HasSeparator(t) == \E i \in 1..Len(t) : t[i] = "="

\* the text before the first separator of t
KeyOfText(t) == SubSeq(t, 1, FirstIndex(t, "=") - 1)

\* t is a key=value line with one of the keys
HasKey(t, keys) == HasSeparator(t) /\ KeyOfText(t) \in keys

\* t is blank or a comment
IsBlankOrComment(t) == Len(t) = 0 \/ t[1] = "#"

\* t is a numeric cost line
IsCostText(t) == Len(t) > 0 /\ IsAsciiDigit(t[1]) /\ ~HasSeparator(t)

\* a step of the loop that reads a line and goes on to the next line
ReadStep == pc = "body" /\ lines_read' = lines_read + 1

\* a step in which the match of the loop sees a numeric cost line
CostStep == ReadStep /\ ~is_header /\ IsCostText(line')

\* the columns of the cost line t after the declared position columns
EventColumns(t) == Skip(SplitWhitespace(t), Len(positions_prototype.val))

\* every column of t that belongs to a declared event kind is an integer
ColumnsAreIntegers(t) ==
    \A i \in 1..Len(metrics_prototype.val) :
        i <= Len(EventColumns(t)) => ParseU64(EventColumns(t)[i]).some

\* the cost of t for the i-th declared event kind: column N+i, 0 if t has none
CostOfText(t) ==
    [i \in 1..Len(metrics_prototype.val) |->
        [kind |-> metrics_prototype.val[i].kind,
         cost |-> IF i <= Len(EventColumns(t))
                  THEN ParseU64(EventColumns(t)[i]).val
                  ELSE 0]]

\* the element-wise sum of two metrics
Plus(a, b) == [i \in 1..Len(a) |-> [kind |-> a[i].kind, cost |-> a[i].cost + b[i].cost]]

\* the map with the entry of id grown by the metrics m, every other entry kept
Folded(map, id, m) ==
    [k \in (DOMAIN map) \cup {id} |->
        IF k = id
        THEN Value(IF id \in DOMAIN map THEN Plus(map[id].metrics, m) ELSE m)
        ELSE map[k]]

\* the Id of the current function
CurrentFunction == Id(current_id.obj, current_id.file, current_id.func.val)

(***************************************************************************)
(* C1: a cost line read while a call-site record with a callee (cfn=) is    *)
(* pending is folded into the callee's entry of cfn_totals; a cost line     *)
(* read with no pending record is folded into the entry of the current      *)
(* function (current obj, file, func) of fn_totals.                         *)
(***************************************************************************)
C1_CostLineAttribution ==
    [][(CostStep /\ ColumnsAreIntegers(line') /\ current_id.func.some) =>
         IF cfn_record.some /\ cfn_record.val.id.some
         THEN /\ pc' = "body"
              /\ cfn_totals' = Folded(cfn_totals, cfn_record.val.id.val, CostOfText(line'))
         ELSE ~cfn_record.some =>
              /\ pc' = "body"
              /\ fn_totals' = Folded(fn_totals, CurrentFunction, CostOfText(line'))
              /\ cfn_totals' = cfn_totals]_vars

\* a cost line was folded into a callee's entry, and a later one into the
\* entry of the current function alone
C1_Witness ==
    /\ pc = "body"
    /\ IsCostText(line)
    /\ \E callee \in DOMAIN cfn_totals : \E caller \in DOMAIN fn_totals :
          /\ callee # caller
          /\ fn_totals[caller].metrics = Plus(cfn_totals[callee].metrics, cfn_totals[callee].metrics)
          /\ \E i \in 1..Len(cfn_totals[callee].metrics) : cfn_totals[callee].metrics[i].cost > 0

(***************************************************************************)
(* C2: once a sentinel has been resolved during a parse it never changes:   *)
(* sentinel_key stays the Id of the first fn= line that matched the         *)
(* Sentinel (first match wins, later matches are not tracked).              *)
(***************************************************************************)
C2_FirstMatchWins ==
    [][(pc = "body" /\ pc' = "body" /\ sentinel_key.some) =>
         sentinel_key' = sentinel_key]_vars

(***************************************************************************)
(* C3: the sentinel_key of a parse result is unset when no Sentinel is      *)
(* configured or no fn= line matched it; otherwise it is an Id whose func   *)
(* matches the pattern, built from the obj and the file that were current   *)
(* when that fn= line was processed; never the Id of a function that does   *)
(* not match.                                                               *)
(***************************************************************************)
\* a step in which the loop processes a fn= line whose name matches the sentinel
MatchingFnStep ==
    /\ ReadStep
    /\ HasKey(line', {K_fn})
    /\ sentinel.some
    /\ SubSeq(line', 4, Len(line')) \in sentinel.val

C3_SentinelKey ==
    /\ [](sentinel_key.some =>
            /\ sentinel.some
            /\ sentinel_key.val.func \in sentinel.val)
    /\ []((result.kind = "Returned" /\ result.value.ok /\ result.value.val.sentinel_key.some) =>
            /\ sentinel.some
            /\ result.value.val.sentinel_key.val.func \in sentinel.val)
    /\ [][(ReadStep /\ pc' = "body") =>
            IF MatchingFnStep
            THEN sentinel_key' =
                    Some(Id(current_id.obj, current_id.file, SubSeq(line', 4, Len(line'))))
            ELSE sentinel_key' = sentinel_key]_vars
    /\ [][(pc = "body" /\ result'.kind = "Returned" /\ result'.value.ok) =>
            result'.value.val.sentinel_key = sentinel_key]_vars

\* a result whose sentinel_key was built from a current obj, with the entry of
\* a function that does not match in its map
C3_Witness ==
    /\ result.kind = "Returned"
    /\ result.value.ok
    /\ result.value.val.sentinel_key.some
    /\ result.value.val.sentinel_key.val.obj.some
    /\ \E id \in DOMAIN result.value.val.map : id.func \notin sentinel.val

(***************************************************************************)
(* C4: current obj, file and func persist until overwritten: ob= changes    *)
(* only obj, fl= and fi=/fe= change only file, fn= changes only func, and   *)
(* cost lines, callee directives, ignored, blank and comment lines change   *)
(* none of the three.                                                       *)
(***************************************************************************)
C4_ContextPersists ==
    [][(ReadStep /\ pc' = "body") =>
         /\ HasKey(line', {K_ob}) \/ current_id'.obj = current_id.obj
         /\ HasKey(line', {K_fl, K_fi, K_fe}) \/ current_id'.file = current_id.file
         /\ HasKey(line', {K_fn}) \/ current_id'.func = current_id.func
         /\ HasKey(line', {K_ob}) => current_id'.obj.some
         /\ HasKey(line', {K_fl, K_fi, K_fe}) => current_id'.file.some
         /\ HasKey(line', {K_fn}) => current_id'.func = Some(SubSeq(line', 4, Len(line')))]_vars

\* obj, file and func are all set, and the line read last is an inlined-at
\* directive: func and obj are those of earlier lines
C4_Witness ==
    /\ pc = "body"
    /\ HasKey(line, {K_fi, K_fe})
    /\ current_id.obj.some
    /\ current_id.file.some
    /\ current_id.func.some

(***************************************************************************)
(* C5: for a trace body without callee directives the returned map holds    *)
(* exactly the Ids (obj, file, func current at that time) under which a     *)
(* cost line occurred, and the count of an entry for the i-th event kind    *)
(* is the sum, over the cost lines seen while that Id was current, of the   *)
(* column N+i, N the number of declared position columns.                   *)
(***************************************************************************)
\* the recorded lines, trimmed
Body == [i \in 1..Len(trace.val) |-> Trim(trace.val[i])]

\* the first line of b that holds a separator and is no comment: where the
\* body starts (Len(b) + 1 if there is none)
BodyStart(b) ==
    LET starts == {i \in 1..Len(b) : ~IsBlankOrComment(b[i]) /\ HasSeparator(b[i])}
    IN IF starts = {} THEN Len(b) + 1
       ELSE CHOOSE i \in starts : \A j \in starts : i <= j

\* the value of the last line of b before line i with one of the keys, if any
LastValue(b, i, keys) ==
    LET set == {j \in 1..(i - 1) : ~IsBlankOrComment(b[j]) /\ HasKey(b[j], keys)}
        last == CHOOSE j \in set : \A k \in set : k <= j
    IN IF set = {} THEN None
       ELSE Some(SubSeq(b[last], FirstIndex(b[last], "=") + 1, Len(b[last])))

\* the normalized path of an optional raw path
PathOf(raw) == IF raw.some THEN Some(make_path(ProjectRoot, raw.val)) ELSE None

\* the Id that is current when line i of b is read
IdAt(b, i) ==
    Id(PathOf(LastValue(b, i, {K_ob})),
       PathOf(LastValue(b, i, {K_fl, K_fi, K_fe})),
       LastValue(b, i, {K_fn}).val)

\* the cost lines of the body of b
CostIndexes(b) == {i \in 1..Len(b) : i > BodyStart(b) /\ IsCostText(b[i])}

RECURSIVE SumOfCosts(_, _)
SumOfCosts(b, indexes) ==
    IF indexes = {}
    THEN metrics_prototype.val
    ELSE LET i == CHOOSE i \in indexes : TRUE
         IN Plus(CostOfText(b[i]), SumOfCosts(b, indexes \ {i}))

ExpectedMap(b) ==
    [id \in {IdAt(b, i) : i \in CostIndexes(b)} |->
        Value(SumOfCosts(b, {i \in CostIndexes(b) : IdAt(b, i) = id}))]

C5_MapIsSumOfCostLines ==
    (result.kind = "Returned" /\ result.value.ok) =>
        result.value.val.map = ExpectedMap(Body)

\* header positions=[line], events=[Ir], body fn=f, "0 3 4", "1 5": the single
\* entry f with Ir = 3 + 5
C5_Witness ==
    /\ result.kind = "Returned"
    /\ result.value.ok
    /\ trace.val = <<L_fn_f, L_cost, L_cost_short>>
    /\ positions_prototype.val = <<<<"l", "i", "n", "e">>>>
    /\ result.value.val.map =
          (Id(None, None, <<"f">>) :> Value(<<[kind |-> <<"I", "r">>, cost |-> 8]>>))

(***************************************************************************)
(* C6: after a cost line has been folded for a pending call-site record     *)
(* the record is cleared: a record receives at most one cost line, and the  *)
(* next cost line without a new callee directive is not folded into the     *)
(* entry of the previous callee.                                            *)
(***************************************************************************)
C6_RecordCleared ==
    [][(CostStep /\ pc' = "body") =>
         /\ cfn_record' = None
         /\ ~cfn_record.some => cfn_totals' = cfn_totals]_vars

\* two cost lines after one cfn=: the callee holds the first line only, the
\* current function both, and no record is pending
C6_Witness ==
    /\ pc = "body"
    /\ IsCostText(line)
    /\ cfn_record = None
    /\ \E callee \in DOMAIN cfn_totals : \E caller \in DOMAIN fn_totals :
          /\ \E i \in 1..Len(cfn_totals[callee].metrics) : cfn_totals[callee].metrics[i].cost > 0
          /\ fn_totals[caller].metrics # cfn_totals[callee].metrics

(***************************************************************************)
(* C7: a body line that is not blank, not a comment, not a context          *)
(* directive, not a cost line and not an ignorable line makes parse_single  *)
(* end with a ParseError value that carries the path of the trace file and  *)
(* the offending line.                                                      *)
(***************************************************************************)
\* a trimmed line that no arm of the match accepts once the body has started
IsMalformedText(t) ==
    /\ ~IsBlankOrComment(t)
    /\ IF HasSeparator(t)
       THEN KeyOfText(t) \notin MatchedKeys
       ELSE /\ ~IsCostText(t)
            /\ ~StartsWith(t, K_totals)
            /\ ~StartsWith(t, K_summary)

C7_MalformedLineIsParseError ==
    [][(ReadStep /\ ~is_header /\ IsMalformedText(line')) =>
         /\ result'.kind = "Returned"
         /\ ~result'.value.ok
         /\ result'.value.err.type = "ParseError"
         /\ result'.value.err.path = path]_vars

(***************************************************************************)
(* C8: a call-site directive that is not followed by the cost line it       *)
(* requires, in particular a record still pending when the file ends,       *)
(* makes parse_single fail with a ParseError for that file.                 *)
(***************************************************************************)
\* the step at the end of the file
EndOfFileStep == pc = "body" /\ pc' = "done" /\ lines_read' = lines_read

C8_PendingRecordIsParseError ==
    [][(EndOfFileStep /\ cfn_record.some) =>
         /\ result'.kind = "Returned"
         /\ ~result'.value.ok]_vars

(***************************************************************************)
(* C9: in the body of a trace, blank lines, comment lines, jump=, jcnd=,    *)
(* jfi=, jfn= lines and totals: / summary: lines never cause an error and   *)
(* leave the whole parser state unchanged, so that the result is that of    *)
(* the file without them; totals come only from cost lines.                 *)
(***************************************************************************)
JumpKeys == {K_jump, K_jcnd, K_jfi, K_jfn}

\* a trimmed line of one of the ignorable kinds
IsIgnorableText(t) ==
    \/ IsBlankOrComment(t)
    \/ HasKey(t, JumpKeys)
    \/ ~HasSeparator(t) /\ (StartsWith(t, K_totals) \/ StartsWith(t, K_summary))

\* as claimed: nothing of the state of the parser changes
C9_IgnoredLinesChangeNothing ==
    [][(ReadStep /\ IsIgnorableText(line')) =>
         /\ pc' = "body"
         /\ result' = result
         /\ UNCHANGED <<is_header, current_id, cfn_record, cfn_totals, fn_totals,
                        sentinel_key>>]_vars

\* as amended: a jump=, jcnd=, jfi= or jfn= line is a key=value line, and
\* the first key=value line ends the skipping of the rest of the header
C9_IgnoredLinesKeepContext ==
    /\ [][(ReadStep /\ IsIgnorableText(line')) =>
            /\ pc' = "body"
            /\ result' = result
            /\ UNCHANGED <<current_id, cfn_record, cfn_totals, fn_totals, sentinel_key>>
            /\ is_header' = (is_header /\ (IsBlankOrComment(line') \/ ~HasKey(line', JumpKeys)))]_vars
    /\ [][(pc' = "body" /\ (fn_totals' # fn_totals \/ cfn_totals' # cfn_totals)) =>
            CostStep]_vars

\* a jump line read in the body with totals accumulated and a record pending
C9_Witness ==
    /\ pc = "body"
    /\ ~is_header
    /\ HasKey(line, JumpKeys)
    /\ cfn_record.some
    /\ DOMAIN fn_totals # {}

(***************************************************************************)
(* C10: body processing starts at the first line that holds a key=value     *)
(* separator, and parsing fails with a ParseError carrying the file path    *)
(* unless the header has declared both the position columns and the event   *)
(* kinds before that line; no cost line is sliced with an undeclared        *)
(* column layout.                                                           *)
(***************************************************************************)
HeaderDeclared == positions_prototype.some /\ metrics_prototype.some

C10_HeaderDeclaredBeforeBody ==
    /\ [](pc = "body" => HeaderDeclared)
    /\ []((~is_header \/ DOMAIN fn_totals # {} \/ DOMAIN cfn_totals # {}) => HeaderDeclared)
    /\ []((pc = "done" /\ ~HeaderDeclared) =>
            /\ result.kind = "Returned"
            /\ ~result.value.ok
            /\ result.value.err.type = "ParseError"
            /\ result.value.err.path = path)
    /\ [][(ReadStep /\ pc' = "body" /\ is_header) =>
            (is_header' <=> (IsBlankOrComment(line') \/ ~HasSeparator(line')))]_vars

\* a header that declared the position columns only: the parse failed
C10_Witness ==
    /\ pc = "done"
    /\ positions_prototype.some
    /\ ~metrics_prototype.some
    /\ result.kind = "Returned"
    /\ ~result.value.ok
    /\ result.value.err.path = path

(***************************************************************************)
(* CallgrindMap and CallgrindMap::add_mut                                   *)
(***************************************************************************)
CallgrindMap(map, snt, key) == [map |-> map, sentinel |-> snt, sentinel_key |-> key]

\* AddMutEntry with the value of other replacing the value of self
AddMutEntryOverwriting(map, other_key, other_value) ==
    IF other_key \in DOMAIN map
    THEN [map EXCEPT ![other_key] = other_value]
    ELSE map @@ (other_key :> other_value)

\* AddMutEntry without the insertion of the keys self does not hold
AddMutEntryNoInsert(map, other_key, other_value) ==
    IF other_key \in DOMAIN map
    THEN [map EXCEPT ![other_key] = Value(MetricsAdd(@.metrics, other_value.metrics))]
    ELSE map

\* the body of the loop of add_mut:
\* if let Some(value) = self.map.get_mut(other_key) { value.metrics.add(&other_value.metrics) }
\* else { self.map.insert(other_key.clone(), other_value.clone()) }
AddMutEntry(map, other_key, other_value) ==
    IF other_key \in DOMAIN map
    THEN [map EXCEPT ![other_key] = Value(MetricsAdd(@.metrics, other_value.metrics))]
    ELSE map @@ (other_key :> other_value)

\* for (other_key, other_value) in &other.map: the keys of a HashMap come in
\* an order of its own, each of them once
RECURSIVE AddMutEntries(_, _, _)
AddMutEntries(map, other, keys) ==
    IF keys = {}
    THEN map
    ELSE LET other_key == CHOOSE k \in keys : TRUE
         IN AddMutEntries(AddMutEntry(map, other_key, other[other_key]),
                          other, keys \ {other_key})

\* add_mut taking the map of other for the map of self
add_mutReplacing(self, other) == [self EXCEPT !.map = other.map]

\* pub fn add_mut(&mut self, other: &Self): self after the call
add_mut(self, other) ==
    [self EXCEPT !.map = AddMutEntries(self.map, other.map, DOMAIN other.map)]

(***************************************************************************)
(* The maps of the parts of one benchmark run, merged into one another.     *)
(* All of them are parsed under one configuration and hold the same event   *)
(* kinds.                                                                   *)
(***************************************************************************)
\* the maps of a run
MaxParts == 3
\* the parts a map may hold after merging, repetitions counted
MaxHeld == 3

IdF == Id(None, None, <<"f">>)
IdG == Id(Some(Relative(<<"o">>)), None, <<"g">>)

\* the metrics of the event kinds Ir and Dr
Costs(ir, dr) ==
    <<[kind |-> <<"I", "r">>, cost |-> ir], [kind |-> <<"D", "r">>, cost |-> dr]>>

\* maps as parse_single returns them
MergeMaps ==
    { CallgrindMap(EmptyMap, None, None),
      CallgrindMap(IdF :> Value(Costs(3, 4)), None, None),
      CallgrindMap((IdF :> Value(Costs(1, 0))) @@ (IdG :> Value(Costs(5, 2))),
                   Some({<<"g">>}), Some(IdG)),
      CallgrindMap(IdG :> Value(Costs(U64Max - 4, 7)), Some({<<"g">>}), Some(IdG)) }

\* no call of parse_single is under way
ParseIdle ==
    /\ pc = "idle"
    /\ path = ""
    /\ sentinel = None
    /\ positions_prototype = None
    /\ metrics_prototype = None
    /\ header_read = 0
    /\ result = Running
    /\ trace = None
    /\ LocalsAtStart

\* the number of parts a map holds
RECURSIVE Held(_, _)
Held(h, n) == IF n = 0 THEN 0 ELSE h[n] + Held(h, n - 1)

InitMerge ==
    /\ parts \in [1..MaxParts -> MergeMaps]
    /\ maps = parts
    /\ holds = [i \in 1..MaxParts |-> [k \in 1..MaxParts |-> IF k = i THEN 1 ELSE 0]]
    /\ ParseIdle
    /\ PathIdle
    /\ MultiIdle
    /\ RunIdle
    /\ StoreIdle
    /\ CallIdle

\* maps[i].add_mut(&maps[j]): self and other are different maps, a map
\* cannot be borrowed mutably and shared at once
AddMut(i, j) ==
    /\ i # j
    /\ Held(holds[i], MaxParts) + Held(holds[j], MaxParts) <= MaxHeld
    /\ maps' = [maps EXCEPT ![i] = add_mut(maps[i], maps[j])]
    /\ holds' = [holds EXCEPT ![i] = [k \in 1..MaxParts |-> holds[i][k] + holds[j][k]]]
    /\ UNCHANGED <<parts, parse_vars, path_vars, multi_vars, run_vars, store_vars, call_vars>>

\* the first two maps are the ones merged into: every order and every
\* grouping of the merges of the parts into one map needs no third one
NextMerge == \E i \in 1..2 : \E j \in 1..MaxParts : AddMut(i, j)

SpecMerge == InitMerge /\ [][NextMerge]_vars

(***************************************************************************)
(* C11: CallgrindMap merge (add_mut) is commutative and associative on the  *)
(* id-to-metrics mapping: merging B into A gives the same mapping as        *)
(* merging A into B, merge(merge(A,B),C) gives the same mapping as          *)
(* merge(A,merge(B,C)), and folding the maps gives the same total for       *)
(* every order: the mapping of a map is determined by the parts merged      *)
(* into it, whatever the order and the grouping of the merges.              *)
(***************************************************************************)
\* the sum of two costs, u64::MAX when it is beyond
CappedSum(a, b) == IF a > U64Max - b THEN U64Max ELSE a + b

\* the cost of the c-th event kind of id in the map m, 0 where m has no entry
CostIn(m, id, c) == IF id \in DOMAIN m.map THEN m.map[id].metrics[c].cost ELSE 0

\* a cost added to itself n times
RECURSIVE Times(_, _)
Times(cost, n) == IF n = 0 THEN 0 ELSE CappedSum(cost, Times(cost, n - 1))

\* the cost of the parts 1..n, each as often as h counts it
RECURSIVE TotalCost(_, _, _, _)
TotalCost(h, id, c, n) ==
    IF n = 0
    THEN 0
    ELSE CappedSum(Times(CostIn(parts[n], id, c), h[n]), TotalCost(h, id, c, n - 1))

\* the mapping of the parts h counts: the union of their keys, the costs summed
ExpectedTotal(h) ==
    [id \in UNION {DOMAIN parts[k].map : k \in {n \in 1..MaxParts : h[n] > 0}} |->
        Value([c \in 1..2 |->
                 [kind |-> Costs(0, 0)[c].kind, cost |-> TotalCost(h, id, c, MaxParts)]])]

C11_MergeCommutativeAssociative ==
    /\ \A i, j \in 1..MaxParts :
           add_mut(maps[i], maps[j]).map = add_mut(maps[j], maps[i]).map
    /\ \A i, j, k \in 1..MaxParts :
           add_mut(add_mut(maps[i], maps[j]), maps[k]).map
               = add_mut(maps[i], add_mut(maps[j], maps[k])).map
    /\ \A i \in 1..MaxParts : maps[i].map = ExpectedTotal(holds[i])

\* a map that holds all the parts once, parts with different keys and with
\* different costs for a function they share
C11_Witness ==
    /\ maps # <<>>
    /\ \E i \in 1..MaxParts : \A k \in 1..MaxParts : holds[i][k] = 1
    /\ \E a, b \in 1..MaxParts :
           /\ DOMAIN parts[a].map # DOMAIN parts[b].map
           /\ \E id \in (DOMAIN parts[a].map) \cap (DOMAIN parts[b].map) :
                  parts[a].map[id] # parts[b].map[id]

(***************************************************************************)
(* C12: after self.add_mut(other) the key set of self is the union of the   *)
(* two key sets; an Id of both holds the element-wise sum of both Metrics,  *)
(* an Id only of other holds a copy of other's Metrics, an Id only of self  *)
(* is unchanged; other, and the sentinel and sentinel_key of self, are      *)
(* unchanged.                                                               *)
(***************************************************************************)
\* the element-wise sum of two metrics, each cost at most u64::MAX
PlusCapped(a, b) ==
    [c \in 1..Len(a) |-> [kind |-> a[c].kind, cost |-> CappedSum(a[c].cost, b[c].cost)]]

\* maps[i] after the step is maps[i] merged with maps[j]
MergedInto(i, j) ==
    LET self == maps[i]
        other == maps[j]
        after == maps'[i]
    IN /\ holds'[i] = [k \in 1..MaxParts |-> holds[i][k] + holds[j][k]]
       /\ DOMAIN after.map = (DOMAIN self.map) \cup (DOMAIN other.map)
       /\ \A id \in (DOMAIN self.map) \cap (DOMAIN other.map) :
              after.map[id] = Value(PlusCapped(self.map[id].metrics, other.map[id].metrics))
       /\ \A id \in (DOMAIN other.map) \ (DOMAIN self.map) : after.map[id] = other.map[id]
       /\ \A id \in (DOMAIN self.map) \ (DOMAIN other.map) : after.map[id] = self.map[id]
       /\ after.sentinel = self.sentinel
       /\ after.sentinel_key = self.sentinel_key
       /\ \A k \in (1..MaxParts) \ {i} : maps'[k] = maps[k]

C12_AddMutEffect ==
    [][\A i \in DOMAIN holds :
           holds'[i] # holds[i] => \E j \in (1..MaxParts) \ {i} : MergedInto(i, j)]_vars

\* a map without sentinel that has been merged with a map with a sentinel,
\* which shares a function with it and holds another one
C12_Witness ==
    \E i, j \in DOMAIN holds :
        /\ i # j
        /\ holds[i] = [k \in 1..MaxParts |-> IF k \in {i, j} THEN 1 ELSE 0]
        /\ (DOMAIN parts[i].map) \cap (DOMAIN parts[j].map) # {}
        /\ (DOMAIN parts[j].map) \ (DOMAIN parts[i].map) # {}
        /\ parts[i].sentinel # parts[j].sentinel
        /\ maps[i].sentinel = parts[i].sentinel

(***************************************************************************)
(* make_path on the raw paths of a trace file, and on the paths it returns  *)
(***************************************************************************)
\* the segments a raw path of the model is at most made of
MaxSegments == 3

\* the segments of the raw paths: the project root is /r, the builds
\* 0123456789 and 01234567ab have their first eight characters in common
Segments ==
    { <<"r">>, <<"a">>, <<"r", "u", "s", "t", "c">>, <<"?", "?", "?">>,
      <<"0", "1", "2", "3", "4", "5", "6", "7", "8", "9">>,
      <<"0", "1", "2", "3", "4", "5", "6", "7", "a", "b">> }

\* the segments joined by the separator
RECURSIVE JoinSegments(_)
JoinSegments(segments) ==
    IF Len(segments) = 0
    THEN <<>>
    ELSE IF Len(segments) = 1
    THEN segments[1]
    ELSE segments[1] \o <<"/">> \o JoinSegments(Tail(segments))

\* the raw paths: "???", and relative and absolute paths of up to MaxSegments segments
RawPaths ==
    {<<"?", "?", "?">>}
    \cup UNION {{JoinSegments(segments), <<"/">> \o JoinSegments(segments)} :
                    segments \in UNION {[1..n -> Segments] : n \in 0..MaxSegments}}

\* the text of a path: its components with the separator between them
PathToString(components) ==
    IF IsAbsolute(components)
    THEN <<"/">> \o JoinSegments(Skip(components, 1))
    ELSE JoinSegments(components)

\* the text of the path a SourcePath holds; an unknown path is written ???
SourcePathToString(source_path) ==
    IF source_path = Unknown THEN <<"?", "?", "?">> ELSE PathToString(source_path.path)

InitPath ==
    /\ source \in RawPaths
    /\ normalized = None
    /\ renormalized = None
    /\ ParseIdle
    /\ MergeIdle
    /\ MultiIdle
    /\ RunIdle
    /\ StoreIdle
    /\ CallIdle

\* make_path(&self.project_root, source)
MakePath ==
    /\ ~normalized.some
    /\ normalized' = Some(make_path(ProjectRoot, source))
    /\ UNCHANGED <<source, renormalized, parse_vars, merge_vars, multi_vars, run_vars, store_vars, call_vars>>

\* make_path(&self.project_root, text of the path made before)
MakePathAgain ==
    /\ normalized.some
    /\ ~renormalized.some
    /\ renormalized' = Some(make_path(ProjectRoot, SourcePathToString(normalized.val)))
    /\ UNCHANGED <<source, normalized, parse_vars, merge_vars, multi_vars, run_vars, store_vars, call_vars>>

NextPath == MakePath \/ MakePathAgain

SpecPath == InitPath /\ [][NextPath]_vars

(***************************************************************************)
(* C14: make_path is idempotent for a fixed project root: for every raw     *)
(* path p, normalizing the path held by normalize(p) again yields the same  *)
(* SourcePath (same variant and same path), and Unknown stays Unknown.      *)
(***************************************************************************)
C14_MakePathIdempotent ==
    renormalized.some => renormalized.val = normalized.val

(***************************************************************************)
(* C15: make_path classifies every raw path into exactly one variant with   *)
(* this precedence: the literal "???" gives Unknown; else a path equal to   *)
(* or nested under the project root gives Relative holding only the suffix  *)
(* beyond the root; else an absolute path in the toolchain layout gives     *)
(* the toolchain variant; else any other absolute path gives Absolute       *)
(* holding the path verbatim; else any other relative path gives Relative   *)
(* holding the path verbatim.                                               *)
(***************************************************************************)
\* the raw path starts at the root directory
IsRooted(raw) == Len(raw) > 0 /\ raw[1] = "/"

\* the raw path is the project root or lies under it
IsUnderProjectRoot(raw) ==
    LET root == Pieces(ProjectRoot) IN
    /\ IsRooted(raw)
    /\ Len(Pieces(raw)) >= Len(root)
    /\ \A i \in 1..Len(root) : Pieces(raw)[i] = root[i]

\* the raw path is an absolute path with the top-level segment rustc
IsToolchainPath(raw) ==
    /\ IsRooted(raw)
    /\ Len(Pieces(raw)) >= 1
    /\ Pieces(raw)[1] = <<"r", "u", "s", "t", "c">>

C15_MakePathClassifies ==
    normalized.some =>
        LET made == normalized.val
            segments == Pieces(source)
        IN /\ made.tag \in {"Unknown", "Relative", "Rust", "Absolute"}
           /\ IF source = <<"?", "?", "?">>
              THEN made = Unknown
              ELSE IF IsUnderProjectRoot(source)
              THEN /\ made.tag = "Relative"
                   /\ made.path = Skip(segments, Len(Pieces(ProjectRoot)))
              ELSE IF IsToolchainPath(source)
              THEN made.tag = "Rust"
              ELSE IF IsRooted(source)
              THEN /\ made.tag = "Absolute"
                   /\ made.path = <<RootDir>> \o segments
              ELSE /\ made.tag = "Relative"
                   /\ made.path = segments

\* a path under the project root that continues like a toolchain path
C15_Witness ==
    /\ normalized.some
    /\ IsUnderProjectRoot(source)
    /\ Len(Pieces(source)) = 3
    /\ Pieces(source)[2] = <<"r", "u", "s", "t", "c">>
    /\ normalized.val = Relative(Skip(Pieces(source), 1))

(***************************************************************************)
(* C16: for a toolchain path, normalization truncates the build-identifier  *)
(* segment to exactly its first 8 characters and preserves all remaining    *)
(* path components, so two records with the same func and obj whose         *)
(* toolchain source paths differ only in the build identifier beyond its    *)
(* first 8 characters normalize to equal Ids and are aggregated into one    *)
(* entry.                                                                   *)
(***************************************************************************)
\* the first eight characters of a segment, the segment if it is shorter
FirstEight(segment) ==
    [i \in 1..(IF Len(segment) < 8 THEN Len(segment) ELSE 8) |-> segment[i]]

\* the toolchain paths that differ from raw at most in the build identifier
\* beyond its first eight characters
SameBuildPrefix(raw) ==
    { <<"/">> \o JoinSegments([Pieces(raw) EXCEPT ![2] = build]) :
          build \in {b \in Segments : FirstEight(b) = FirstEight(Pieces(raw)[2])} }

C16_BuildIdentifierTruncated ==
    (normalized.some /\ IsToolchainPath(source)) =>
        LET segments == Pieces(source) IN
        /\ normalized.val.tag = "Rust"
        /\ normalized.val.path =
               <<RootDir, segments[1]>>
               \o (IF Len(segments) >= 2 THEN <<FirstEight(segments[2])>> ELSE <<>>)
               \o Skip(segments, 2)
        /\ Len(segments) >= 2 =>
               \A other \in SameBuildPrefix(source) :
                   LET id == Id(Some(Relative(<<"o">>)), normalized, <<"f">>)
                       other_id == Id(Some(Relative(<<"o">>)),
                                      Some(make_path(ProjectRoot, other)), <<"f">>)
                       totals == AddToEntry(AddToEntry(EmptyMap, id, Costs(1, 2)),
                                            other_id, Costs(3, 4))
                   IN /\ id = other_id
                      /\ DOMAIN totals = {id}
                      /\ totals[id] = Value(Costs(4, 6))

\* a toolchain path with a ten character build identifier and a component
\* after it, which another build shares the first eight characters with
C16_Witness ==
    /\ normalized.some
    /\ IsToolchainPath(source)
    /\ Len(Pieces(source)) = 3
    /\ Len(Pieces(source)[2]) = 10
    /\ Cardinality(SameBuildPrefix(source)) = 2
    /\ Len(normalized.val.path[3]) = 8
    /\ normalized.val.path[4] = Pieces(source)[3]

(***************************************************************************)
(* The trace files of one benchmark run parsed in parallel, one call of     *)
(* parse_single for each file, and the results merged into one accumulator  *)
(* by one writer at a time. The variables of parse_single hold the          *)
(* arguments and locals of the call that takes the next step, suspended     *)
(* holds those of the other calls. Each call has returned from parse_header *)
(* with the position column line and the event kind Ir.                     *)
(***************************************************************************)
\* the trace files of the run
Files == TracePaths

\* the body lines of the files
MultiLines == {L_fn_f, L_fn_g, L_cost, L_cost_short, L_cost_bad}

\* the arguments and locals of the call that takes the next step
Frame ==
    [pc |-> pc, path |-> path, sentinel |-> sentinel,
     positions_prototype |-> positions_prototype,
     metrics_prototype |-> metrics_prototype, header_read |-> header_read,
     is_header |-> is_header, line |-> line, lines_read |-> lines_read,
     current_id |-> current_id, cfn_record |-> cfn_record,
     cfn_totals |-> cfn_totals, fn_totals |-> fn_totals,
     sentinel_key |-> sentinel_key, result |-> result, trace |-> trace]

\* the call parse_single(file) after parse_header, before the loop
FrameAtLoop(file) ==
    [pc |-> "body", path |-> file, sentinel |-> Some({<<"g">>}),
     positions_prototype |-> Some(<<<<"l", "i", "n", "e">>>>),
     metrics_prototype |-> Some(MetricsPrototype(<<<<"I", "r">>>>)), header_read |-> 0,
     is_header |-> TRUE, line |-> <<>>, lines_read |-> 0,
     current_id |-> CurrentIdDefault, cfn_record |-> None,
     cfn_totals |-> EmptyMap, fn_totals |-> EmptyMap,
     sentinel_key |-> None, result |-> Running, trace |-> Some(<<>>)]

\* the slot in suspended of the call that takes the next step
Scheduled == [pc |-> "scheduled"]

\* the arguments and locals of the call for file
FrameOf(file) == IF file = running THEN Frame ELSE suspended[file]

\* the variables of parse_single take the values of a frame
Resume(frame) ==
    /\ pc' = frame.pc
    /\ path' = frame.path
    /\ sentinel' = frame.sentinel
    /\ positions_prototype' = frame.positions_prototype
    /\ metrics_prototype' = frame.metrics_prototype
    /\ header_read' = frame.header_read
    /\ is_header' = frame.is_header
    /\ line' = frame.line
    /\ lines_read' = frame.lines_read
    /\ current_id' = frame.current_id
    /\ cfn_record' = frame.cfn_record
    /\ cfn_totals' = frame.cfn_totals
    /\ fn_totals' = frame.fn_totals
    /\ sentinel_key' = frame.sentinel_key
    /\ result' = frame.result
    /\ trace' = frame.trace

InitMulti ==
    /\ running \in Files
    /\ suspended = [file \in Files |-> IF file = running THEN Scheduled ELSE FrameAtLoop(file)]
    /\ accumulator = CallgrindMap(EmptyMap, None, None)
    /\ merged = {}
    /\ pc = "body"
    /\ path = running
    /\ sentinel = Some({<<"g">>})
    /\ positions_prototype = Some(<<<<"l", "i", "n", "e">>>>)
    /\ metrics_prototype = Some(MetricsPrototype(<<<<"I", "r">>>>))
    /\ header_read = 0
    /\ result = Running
    /\ trace = Some(<<>>)
    /\ LocalsAtStart
    /\ MergeIdle
    /\ PathIdle
    /\ RunIdle
    /\ StoreIdle
    /\ CallIdle

\* another call that has not returned takes the next step
Switch(file) ==
    /\ file # running
    /\ suspended[file].pc # "done"
    /\ running' = file
    /\ suspended' = [suspended EXCEPT ![running] = Frame, ![file] = Scheduled]
    /\ Resume(suspended[file])
    /\ UNCHANGED <<accumulator, merged, merge_vars, path_vars, run_vars, store_vars, call_vars>>

\* the map a call has returned is merged into the accumulator
MergeResult(file) ==
    /\ file \notin merged
    /\ FrameOf(file).pc = "done"
    /\ FrameOf(file).result.kind = "Returned"
    /\ FrameOf(file).result.value.ok
    /\ LET value == FrameOf(file).result.value.val IN
       accumulator' =
           add_mut(accumulator, CallgrindMap(value.map, value.sentinel, value.sentinel_key))
    /\ merged' = merged \cup {file}
    /\ UNCHANGED <<running, suspended, parse_vars, merge_vars, path_vars, run_vars, store_vars, call_vars>>

NextMulti ==
    \/ \E l \in MultiLines : SkipHeaderLine(l)
    \/ \E l \in MultiLines : FnDirective(l)
    \/ \E l \in MultiLines : CostLine(l)
    \/ Finish
    \/ \E file \in Files : Switch(file)
    \/ \E file \in Files : MergeResult(file)

SpecMulti == InitMulti /\ [][NextMulti]_vars

\* the body lines of the files with large counts
LargeLines == {L_fn_f, L_cost_large, L_cost_short}

\* the files with large counts are parsed and merged
InitLarge ==
    /\ running \in LargeFiles
    /\ suspended =
           [file \in LargeFiles |-> IF file = running THEN Scheduled ELSE FrameAtLoop(file)]
    /\ accumulator = CallgrindMap(EmptyMap, None, None)
    /\ merged = {}
    /\ pc = "body"
    /\ path = running
    /\ sentinel = Some({<<"g">>})
    /\ positions_prototype = Some(<<<<"l", "i", "n", "e">>>>)
    /\ metrics_prototype = Some(MetricsPrototype(<<<<"I", "r">>>>))
    /\ header_read = 0
    /\ result = Running
    /\ trace = Some(<<>>)
    /\ LocalsAtStart
    /\ MergeIdle
    /\ PathIdle
    /\ RunIdle
    /\ StoreIdle
    /\ CallIdle

NextLarge ==
    \/ \E l \in LargeLines : SkipHeaderLine(l)
    \/ \E l \in LargeLines : FnDirective(l)
    \/ \E l \in LargeLines : CostLine(l)
    \/ Finish
    \/ \E file \in LargeFiles : Switch(file)
    \/ \E file \in LargeFiles : MergeResult(file)

SpecLarge == InitLarge /\ [][NextLarge]_vars

(***************************************************************************)
(* C13: when the trace files of one benchmark are parsed concurrently and   *)
(* their maps are merged into one accumulator under single-writer           *)
(* discipline, no parse reads or writes the parser state (current id,       *)
(* pending call-site, sentinel_key, totals) of another parse: a step of a   *)
(* parse leaves the state of the others and the accumulator as they are,    *)
(* scheduling another parse changes the state of none, and what a parse     *)
(* returns is determined by the lines of its own file; and the              *)
(* id-to-metrics mapping of the accumulator is the same for every           *)
(* interleaving of the parses and every arrival order of the files: the     *)
(* sum of the maps of the files merged so far.                              *)
(***************************************************************************)
\* the call for file has returned a map
ReturnedMap(file) ==
    /\ FrameOf(file).pc = "done"
    /\ FrameOf(file).result.kind = "Returned"
    /\ FrameOf(file).result.value.ok

\* the lines the call for file has read, trimmed
BodyOf(file) ==
    [i \in 1..Len(FrameOf(file).trace.val) |-> Trim(FrameOf(file).trace.val[i])]

\* the sum of the metrics of id in the maps of the lines of the files
RECURSIVE SumOfFiles(_, _)
SumOfFiles(files, id) ==
    IF files = {}
    THEN MetricsPrototype(<<<<"I", "r">>>>)
    ELSE LET file == CHOOSE f \in files : TRUE
         IN Plus(ExpectedMap(BodyOf(file))[id].metrics, SumOfFiles(files \ {file}, id))

\* the mapping of the files merged so far
ExpectedAccumulator ==
    [id \in UNION {DOMAIN ExpectedMap(BodyOf(file)) : file \in merged} |->
        Value(SumOfFiles({file \in merged : id \in DOMAIN ExpectedMap(BodyOf(file))}, id))]

C13_ParallelParsesIndependent ==
    /\ [][(running' = running /\ merged' = merged) =>
            (suspended' = suspended /\ accumulator' = accumulator)]_vars
    /\ [][running' # running => \A file \in Files : FrameOf(file)' = FrameOf(file)]_vars
    /\ [](\A file \in Files :
              ReturnedMap(file) =>
                  LET value == FrameOf(file).result.value.val IN
                  /\ value.map = ExpectedMap(BodyOf(file))
                  /\ value.sentinel_key.some <=>
                         (\E i \in 1..Len(BodyOf(file)) : BodyOf(file)[i] = Trim(L_fn_g)))
    /\ [](accumulator.map = ExpectedAccumulator)

\* both files merged: their lines differ, they share a function with
\* different costs, and the accumulator holds the sum for it
C13_Witness ==
    /\ running # NoFile
    /\ merged = Files
    /\ \E a, b \in Files :
           /\ BodyOf(a) # BodyOf(b)
           /\ \E id \in (DOMAIN ExpectedMap(BodyOf(a))) \cap (DOMAIN ExpectedMap(BodyOf(b))) :
                  /\ ExpectedMap(BodyOf(a))[id] # ExpectedMap(BodyOf(b))[id]
                  /\ accumulator.map[id] =
                         Value(Plus(ExpectedMap(BodyOf(a))[id].metrics,
                                    ExpectedMap(BodyOf(b))[id].metrics))

(***************************************************************************)
(* The regression configuration: the --regression text of the command line *)
(* (runner/args.rs) and the builder of the library (common.rs)              *)
(***************************************************************************)
UpperCase ==
    <<"A", "B", "C", "D", "E", "F", "G", "H", "I", "J", "K", "L", "M",
      "N", "O", "P", "Q", "R", "S", "T", "U", "V", "W", "X", "Y", "Z">>
LowerCase ==
    <<"a", "b", "c", "d", "e", "f", "g", "h", "i", "j", "k", "l", "m",
      "n", "o", "p", "q", "r", "s", "t", "u", "v", "w", "x", "y", "z">>

\* char::to_ascii_lowercase
ToAsciiLowercase(c) ==
    IF \E i \in 1..26 : UpperCase[i] = c
    THEN LowerCase[CHOOSE i \in 1..26 : UpperCase[i] = c]
    ELSE c

\* the comparison with the case of the letters taken into account
EqWithCase(a, b) == a = b

\* str::eq_ignore_ascii_case
EqIgnoreAsciiCase(a, b) ==
    /\ Len(a) = Len(b)
    /\ \A i \in 1..Len(a) : ToAsciiLowercase(a[i]) = ToAsciiLowercase(b[i])

\* the characters of a string constant
Chars(string) ==
    CASE string = "default" -> <<"d", "e", "f", "a", "u", "l", "t">>
      [] string = "Ir" -> <<"I", "r">>
      [] string = "Rust" -> <<"R", "u", "s", "t">>
      [] string = "Relative" -> <<"R", "e", "l", "a", "t", "i", "v", "e">>
      [] string = "Absolute" -> <<"A", "b", "s", "o", "l", "u", "t", "e">>
      [] string = "EstimatedCycles" ->
             <<"E", "s", "t", "i", "m", "a", "t", "e", "d", "C", "y", "c", "l", "e", "s">>

\* the event kinds of the model
EventKinds == {"Ir", "EstimatedCycles"}

\* EventKind::from_str_ignore_case: the event kind of a name, whatever the
\* case of its letters
EventKindFromStrIgnoreCase(key) ==
    IF \E kind \in EventKinds : EqIgnoreAsciiCase(key, Chars(kind))
    THEN Some(CHOOSE kind \in EventKinds : EqIgnoreAsciiCase(key, Chars(kind)))
    ELSE None

\* str::split(','): the pieces between the separators, empty ones included
RECURSIVE SplitAll(_, _)
SplitAll(string, c) ==
    LET stop == FirstIndex(string, c) IN
    IF stop = 0
    THEN <<string>>
    ELSE <<SubSeq(string, 1, stop - 1)>> \o SplitAll(SubSeq(string, stop + 1, Len(string)), c)

\* a power of ten
RECURSIVE Pow10(_)
Pow10(n) == IF n = 0 THEN 1 ELSE 10 * Pow10(n - 1)

\* an f64 that is a decimal number: num / den, den a power of ten and as
\* small as the number allows
F64(num, den) == [num |-> num, den |-> den]

RECURSIVE Reduced(_)
Reduced(x) ==
    IF x.den > 1 /\ x.num % 10 = 0 THEN Reduced(F64(x.num \div 10, x.den \div 10)) ELSE x

\* ParseF64 with the sign of the literal dropped
ParseF64Unsigned(string) ==
    LET signed == Len(string) > 0 /\ string[1] \in {"+", "-"}
        digits == IF signed THEN Tail(string) ELSE string
        point == FirstIndex(digits, ".")
        whole == IF point = 0 THEN digits ELSE SubSeq(digits, 1, point - 1)
        fraction == IF point = 0 THEN <<>> ELSE SubSeq(digits, point + 1, Len(digits))
    IN IF /\ Len(whole) + Len(fraction) > 0
          /\ \A i \in 1..Len(whole) : IsAsciiDigit(whole[i])
          /\ \A i \in 1..Len(fraction) : IsAsciiDigit(fraction[i])
       THEN Some(Reduced(F64(DecimalValue(whole \o fraction), Pow10(Len(fraction)))))
       ELSE None

\* str::parse::<f64> for decimal literals: an optional sign, digits, and an
\* optional point followed by digits; Some(number), None if the text is no
\* such literal
ParseF64(string) ==
    LET signed == Len(string) > 0 /\ string[1] \in {"+", "-"}
        digits == IF signed THEN Tail(string) ELSE string
        point == FirstIndex(digits, ".")
        whole == IF point = 0 THEN digits ELSE SubSeq(digits, 1, point - 1)
        fraction == IF point = 0 THEN <<>> ELSE SubSeq(digits, point + 1, Len(digits))
        value == DecimalValue(whole \o fraction)
    IN IF /\ Len(whole) + Len(fraction) > 0
          /\ \A i \in 1..Len(whole) : IsAsciiDigit(whole[i])
          /\ \A i \in 1..Len(fraction) : IsAsciiDigit(fraction[i])
       THEN Some(Reduced(F64(IF signed /\ string[1] = "-" THEN 0 - value ELSE value,
                             Pow10(Len(fraction)))))
       ELSE None

\* RegressionConfig { limits, fail_fast }
RegressionConfig(limits, fail_fast) == [limits |-> limits, fail_fast |-> fail_fast]

\* RegressionConfig::default()
RegressionConfigDefault == RegressionConfig(<<>>, None)

\* the body of the loop with the key and the value taken as they stand
ParseLimitUntrimmed(limits, item) ==
    LET split == SplitOnce(item, "=") IN
    IF ~split.some
    THEN Err([text |-> "Invalid format of key/value pair", item |-> item])
    ELSE LET event_kind == EventKindFromStrIgnoreCase(split.val.key)
             pct == ParseF64(split.val.value)
         IN IF ~event_kind.some
            THEN Err([text |-> "Unknown event kind", item |-> split.val.key])
            ELSE IF ~pct.some
            THEN Err([text |-> "Invalid percentage for", item |-> split.val.key])
            ELSE Ok(Append(limits, <<event_kind.val, pct.val>>))

\* the body of the loop of parse_regression_config for one item: the limits
\* with the limit of the item pushed, or the error of the item
ParseLimit(limits, item) ==
    LET split == SplitOnce(Trim(item), "=") IN
    IF ~split.some
    THEN Err([text |-> "Invalid format of key/value pair", item |-> Trim(item)])
    ELSE LET key == Trim(split.val.key)
             value == Trim(split.val.value)
             event_kind == EventKindFromStrIgnoreCase(key)
             pct == ParseF64(value)
         IN IF ~event_kind.some
            THEN Err([text |-> "Unknown event kind", item |-> key])
            ELSE IF ~pct.some
            THEN Err([text |-> "Invalid percentage for", item |-> key])
            ELSE Ok(Append(limits, <<event_kind.val, pct.val>>))

\* the loop with the items that are no limit passed over
RECURSIVE ParseLimitsSkipping(_, _)
ParseLimitsSkipping(limits, items) ==
    IF Len(items) = 0
    THEN Ok(limits)
    ELSE LET pushed == ParseLimit(limits, items[1]) IN
         ParseLimitsSkipping(IF pushed.ok THEN pushed.val ELSE limits, Tail(items))

\* for split in value.split(',') { ... }: the first error ends the loop
RECURSIVE ParseLimits(_, _)
ParseLimits(limits, items) ==
    IF Len(items) = 0
    THEN Ok(limits)
    ELSE LET pushed == ParseLimit(limits, items[1]) IN
         IF pushed.ok THEN ParseLimits(pushed.val, Tail(items)) ELSE pushed

\* fn parse_regression_config(value: &str) -> Result<RegressionConfig, String>
parse_regression_config(value) ==
    LET trimmed == Trim(value) IN
    IF IsEmpty(trimmed)
    THEN Err([text |-> "No limits found: At least one limit must be specified"])
    ELSE IF EqIgnoreAsciiCase(trimmed, Chars("default"))
    THEN Ok(RegressionConfigDefault)
    ELSE LET limits == ParseLimits(<<>>, SplitAll(trimmed, ",")) IN
         IF limits.ok THEN Ok(RegressionConfig(limits.val, None)) ELSE limits

\* the conversion with the flag --regression-fail-fast left out
FromCommandLineArgsWithoutFlag(value) == value.regression

\* the conversion with fail_fast set whatever the flag says
FromCommandLineArgsFailingFast(value) ==
    IF value.regression.some
    THEN Some([value.regression.val EXCEPT !.fail_fast = Some(TRUE)])
    ELSE None

\* impl From<&CommandLineArgs> for Option<RegressionConfig>
FromCommandLineArgs(value) ==
    IF value.regression.some
    THEN Some([value.regression.val EXCEPT !.fail_fast = value.regression_fail_fast])
    ELSE None

\* limits with the targets left out
RegressionConfigLimitsDropped(self, targets) == self

\* RegressionConfig::limits
RegressionConfigLimits(self, targets) == [self EXCEPT !.limits = self.limits \o targets]

\* RegressionConfig::fail_fast
RegressionConfigFailFast(self, value) == [self EXCEPT !.fail_fast = Some(value)]

(***************************************************************************)
(* The benchmark run and its regression check                              *)
(***************************************************************************)
MaxBenchmarks == 2

\* the limits of a configuration; one without limits checks Ir with +10%
DefaultLimit == <<"Ir", F64(10, 1)>>

EffectiveLimits(regression_config) ==
    IF regression_config.limits = <<>> THEN <<DefaultLimit>> ELSE regression_config.limits

\* the value of an event kind in the metrics of a run; an absent value is 0
MetricOf(metrics, event_kind) ==
    IF event_kind \in DOMAIN metrics THEN metrics[event_kind] ELSE 0

\* the comparator with a baseline of 0 taken for no change
IsRegressionZeroUnchanged(old, new, limit) ==
    /\ old # 0
    /\ \/ limit.num > 0 /\ (new - old) * 100 * limit.den >= limit.num * old
       \/ limit.num < 0 /\ (new - old) * 100 * limit.den <= limit.num * old

\* the comparator: the change (new - old) / old * 100 against the limit
IsRegression(old, new, limit) ==
    IF old = 0
    THEN new > 0 /\ limit.num > 0
    ELSE \/ limit.num > 0 /\ (new - old) * 100 * limit.den >= limit.num * old
         \/ limit.num < 0 /\ (new - old) * 100 * limit.den <= limit.num * old

\* the violations of one benchmark, in the order of the limits
RECURSIVE Violations(_, _, _)
Violations(index, benchmark, limits) ==
    IF Len(limits) = 0
    THEN <<>>
    ELSE LET event_kind == limits[1][1]
             old == MetricOf(benchmark.old, event_kind)
             new == MetricOf(benchmark.new, event_kind)
         IN (IF IsRegression(old, new, limits[1][2])
             THEN <<[benchmark |-> index, event_kind |-> event_kind,
                     old |-> old, new |-> new, limit |-> limits[1][2]]>>
             ELSE <<>>)
            \o Violations(index, benchmark, Tail(limits))

\* the texts of --regression
R_ir_pos == <<"I", "r", "=", "1", "0">>
R_ir_neg == <<"i", "r", "=", "-", "1", "0">>
R_ir_point == <<" ", "I", "R", " ", "=", " ", "+", "1", "0", ".", "0", " ">>
R_two == <<"i", "r", "=", "-", "1", "0", ",", "E", "s", "t", "i", "m", "a", "t", "e", "d", "C", "y", "c", "l", "e", "s", "=", "1", "0">>
R_default == <<"D", "e", "f", "a", "u", "l", "t">>
R_bad == <<"i", "r", "=", "x">>

\* texts that are no list of limits: no text, no "=", no event kind, no
\* number, as the only, the first and the last item
B_empty == <<>>
B_blank == <<" ", " ">>
B_format == <<"I", "r", ":", "1", "0">>
B_kind_first == <<"W", "R", "O", "N", "G", "=", "1", "0", ",", "I", "r", "=", "1", "0">>
B_number_last == <<"I", "r", "=", "1", "0", ",", " ", "I", "r", "=", "1", "0", ".", "0", ".", "0">>
B_format_last == <<"i", "r", "=", "5", ",", " ", "E", "s", "t", "i", "m", "a", "t", "e", "d", "C", "y", "c", "l", "e", "s">>

BadTexts == {R_bad, B_empty, B_blank, B_format, B_kind_first, B_number_last, B_format_last}

RegressionTexts == {R_ir_pos, R_ir_neg, R_ir_point, R_two, R_default} \cup BadTexts

\* the metrics of a run: Ir only, Ir and EstimatedCycles, or none
IrOnly(ir) == [event_kind \in {"Ir"} |-> ir]
IrAndCycles(ir, cycles) ==
    [event_kind \in EventKinds |-> IF event_kind = "Ir" THEN ir ELSE cycles]
NoMetrics == [event_kind \in {} |-> 0]

Benchmark(old, new) == [old |-> old, new |-> new]

\* the old and the new run of a benchmark
Benchmarks ==
    {Benchmark(IrOnly(100), IrOnly(new)) : new \in {89, 90, 91, 100, 109, 110, 111}}
        \cup {Benchmark(IrOnly(0), IrOnly(0)), Benchmark(IrOnly(0), IrOnly(5)),
              Benchmark(NoMetrics, IrOnly(5)), Benchmark(NoMetrics, NoMetrics),
              Benchmark(IrOnly(100), NoMetrics),
              Benchmark(IrAndCycles(100, 200), IrAndCycles(80, 230))}

\* the regression settings of a run: of the command line (the text of
\* --regression, if given, and --regression-fail-fast, which requires
\* --regression) or of the library (the limits and fail_fast, if called)
Booleans == {None, Some(TRUE), Some(FALSE)}

Settings ==
    {[origin |-> "cli", regression |-> Some(text), regression_fail_fast |-> flag] :
         text \in RegressionTexts, flag \in Booleans}
        \cup {[origin |-> "cli", regression |-> None, regression_fail_fast |-> None]}
        \cup {[origin |-> "api", limits |-> limits, fail_fast |-> flag] :
                  limits \in {<<>>, <<<<"Ir", F64(10, 1)>>>>,
                              <<<<"EstimatedCycles", F64(10, 1)>>, <<"Ir", F64(-10, 1)>>>>},
                  flag \in Booleans}

InitRun ==
    /\ given \in Settings
    /\ config = None
    /\ \E n \in 1..MaxBenchmarks : benchmarks \in [1..n -> Benchmarks]
    /\ executed = 0
    /\ regressions = <<>>
    /\ outcome = "configuring"
    /\ ParseIdle
    /\ MergeIdle
    /\ PathIdle
    /\ MultiIdle
    /\ StoreIdle
    /\ CallIdle

\* the command line is parsed: the value parser of --regression is
\* parse_regression_config, its error ends the run before any benchmark
ParseArguments ==
    /\ outcome = "configuring"
    /\ given.origin = "cli"
    /\ IF given.regression.some /\ ~parse_regression_config(given.regression.val).ok
       THEN /\ outcome' = "ArgumentError"
            /\ UNCHANGED config
       ELSE /\ outcome' = "running"
            /\ config' = FromCommandLineArgs(
                   [regression |->
                        IF given.regression.some
                        THEN Some(parse_regression_config(given.regression.val).val)
                        ELSE None,
                    regression_fail_fast |-> given.regression_fail_fast])
    /\ UNCHANGED <<given, benchmarks, executed, regressions,
                   parse_vars, merge_vars, path_vars, multi_vars, store_vars, call_vars>>

\* RegressionConfig::default().limits(..).fail_fast(..)
BuildConfig ==
    /\ outcome = "configuring"
    /\ given.origin = "api"
    /\ LET with_limits == RegressionConfigLimits(RegressionConfigDefault, given.limits) IN
       config' = Some(IF given.fail_fast.some
                      THEN RegressionConfigFailFast(with_limits, given.fail_fast.val)
                      ELSE with_limits)
    /\ outcome' = "running"
    /\ UNCHANGED <<given, benchmarks, executed, regressions,
                   parse_vars, merge_vars, path_vars, multi_vars, store_vars, call_vars>>

\* the next benchmark is executed and checked; with fail_fast the first
\* violation ends the run
RunBenchmark ==
    /\ outcome = "running"
    /\ executed < Len(benchmarks)
    /\ LET found == IF config.some
                    THEN Violations(executed + 1, benchmarks[executed + 1],
                                    EffectiveLimits(config.val))
                    ELSE <<>>
       IN IF found # <<>> /\ config.val.fail_fast = Some(TRUE)
          THEN /\ regressions' = <<found[1]>>
               /\ outcome' = "RegressionError"
          ELSE /\ regressions' = regressions \o found
               /\ UNCHANGED outcome
    /\ executed' = executed + 1
    /\ UNCHANGED <<given, config, benchmarks,
                   parse_vars, merge_vars, path_vars, multi_vars, store_vars, call_vars>>

\* all benchmarks are executed: the run fails if a violation is recorded
FinishRun ==
    /\ outcome = "running"
    /\ executed = Len(benchmarks)
    /\ outcome' = IF regressions = <<>> THEN "Ok" ELSE "RegressionError"
    /\ UNCHANGED <<given, config, benchmarks, executed, regressions,
                   parse_vars, merge_vars, path_vars, multi_vars, store_vars, call_vars>>

NextRun == ParseArguments \/ BuildConfig \/ RunBenchmark \/ FinishRun

SpecRun == InitRun /\ [][NextRun]_vars

(***************************************************************************)
(* C17: a limit with a positive threshold t is violated exactly when the   *)
(* change (new - old) / old * 100 of its event kind is >= t, one with a     *)
(* negative threshold exactly when the change is <= t; an absent value      *)
(* counts as 0.  Stated for the runs that report every violation: a         *)
(* benchmark that was executed has a violation of a limit recorded exactly  *)
(* when the change of its values meets the threshold written in the         *)
(* settings.                                                               *)
(***************************************************************************)
\* the limits written in the settings, in whole percent
WrittenLimits ==
    IF given.origin = "api"
    THEN {<<given.limits[j][1], given.limits[j][2].num>> : j \in 1..Len(given.limits)}
    ELSE IF given.regression = Some(R_ir_pos) \/ given.regression = Some(R_ir_point)
    THEN {<<"Ir", 10>>}
    ELSE IF given.regression = Some(R_ir_neg)
    THEN {<<"Ir", 0 - 10>>}
    ELSE IF given.regression = Some(R_two)
    THEN {<<"Ir", 0 - 10>>, <<"EstimatedCycles", 10>>}
    ELSE {}

\* fail_fast as written in the settings
WrittenFailFast ==
    IF given.origin = "api" THEN given.fail_fast ELSE given.regression_fail_fast

\* the value of an event kind in a run of benchmark i
OldValue(i, event_kind) ==
    IF event_kind \in DOMAIN benchmarks[i].old THEN benchmarks[i].old[event_kind] ELSE 0
NewValue(i, event_kind) ==
    IF event_kind \in DOMAIN benchmarks[i].new THEN benchmarks[i].new[event_kind] ELSE 0

\* a violation of the limit of an event kind is recorded for benchmark i
Flagged(i, event_kind) ==
    \E n \in 1..Len(regressions) :
        regressions[n].benchmark = i /\ regressions[n].event_kind = event_kind

\* the change of the values meets the threshold t
MeetsThreshold(old, new, t) ==
    \/ t > 0 /\ (new - old) * 100 >= t * old
    \/ t < 0 /\ (new - old) * 100 <= t * old

C18_ZeroBaseline ==
    WrittenFailFast # Some(TRUE) =>
        \A i \in 1..executed : \A limit \in WrittenLimits :
            OldValue(i, limit[1]) = 0 =>
                /\ NewValue(i, limit[1]) = 0 => ~Flagged(i, limit[1])
                /\ NewValue(i, limit[1]) > 0 /\ limit[2] > 0 => Flagged(i, limit[1])

\* old = 0 with new = 5 is flagged and old = 0 with new = 0 is not, for
\* the limit Ir=10
C18_Witness ==
    /\ given.origin = "cli"
    /\ given.regression = Some(R_ir_pos)
    /\ benchmarks = <<Benchmark(IrOnly(0), IrOnly(5)), Benchmark(IrOnly(0), IrOnly(0))>>
    /\ executed = 2
    /\ Flagged(1, "Ir")
    /\ ~Flagged(2, "Ir")

(***************************************************************************)
(* C19: with fail_fast = true the first violation found in the ordered     *)
(* list of benchmarks ends the run at that benchmark: no later benchmark   *)
(* is executed, and the regression error carries one violation, that of    *)
(* this benchmark.                                                         *)
(***************************************************************************)
\* the limits the settings ask to check: the written ones, Ir with +10% if a
\* configuration without limits is given, none if no configuration is given
CheckedLimits ==
    IF WrittenLimits # {}
    THEN WrittenLimits
    ELSE IF given.origin = "api" \/ given.regression = Some(R_default)
    THEN {<<"Ir", 10>>}
    ELSE {}

\* benchmark i violates a limit of the settings
Violating(i) ==
    \E limit \in CheckedLimits :
        LET old == OldValue(i, limit[1])
            new == NewValue(i, limit[1])
        IN IF old = 0
           THEN new > 0 /\ limit[2] > 0
           ELSE MeetsThreshold(old, new, limit[2])

\* the first benchmark of the list that violates a limit, 0 if there is none
FirstViolating ==
    IF \E i \in 1..Len(benchmarks) : Violating(i)
    THEN CHOOSE i \in 1..Len(benchmarks) :
             Violating(i) /\ \A k \in 1..(i - 1) : ~Violating(k)
    ELSE 0

C19_FailFastAborts ==
    WrittenFailFast = Some(TRUE) /\ FirstViolating # 0 =>
        /\ executed <= FirstViolating
        /\ executed = FirstViolating =>
               /\ outcome = "RegressionError"
               /\ Len(regressions) = 1
               /\ regressions[1].benchmark = FirstViolating
        /\ executed < FirstViolating => regressions = <<>>

\* two benchmarks that violate the limit: the run has ended after the first
C19_Witness ==
    /\ given.origin = "cli"
    /\ given.regression_fail_fast = Some(TRUE)
    /\ Len(benchmarks) = 2
    /\ Violating(1)
    /\ Violating(2)
    /\ executed = 1
    /\ outcome = "RegressionError"
    /\ Len(regressions) = 1

(***************************************************************************)
(* C20: with fail_fast = false, which is the default, every benchmark of   *)
(* the list is executed whatever violations were found before it, the      *)
(* violations of all benchmarks are reported together at the end, and the  *)
(* run ends in failure if there is at least one violation.                 *)
(***************************************************************************)
\* benchmark i violates the limit
ViolatesLimit(i, limit) ==
    IF OldValue(i, limit[1]) = 0
    THEN NewValue(i, limit[1]) > 0 /\ limit[2] > 0
    ELSE MeetsThreshold(OldValue(i, limit[1]), NewValue(i, limit[1]), limit[2])

\* the violations recorded are those of all benchmarks of the list
AllViolationsReported ==
    /\ \A i \in 1..Len(benchmarks) : \A limit \in CheckedLimits :
           Flagged(i, limit[1]) <=> ViolatesLimit(i, limit)
    /\ \A n \in 1..Len(regressions) :
           \E limit \in CheckedLimits :
               /\ limit[1] = regressions[n].event_kind
               /\ regressions[n].benchmark \in 1..Len(benchmarks)
               /\ ViolatesLimit(regressions[n].benchmark, limit)
    /\ \A n \in 1..Len(regressions) : \A k \in 1..Len(regressions) :
           n < k => regressions[n].benchmark <= regressions[k].benchmark

RunEnded == outcome \in {"Ok", "RegressionError"}

C20_AllBenchmarksRun ==
    /\ [](WrittenFailFast # Some(TRUE) /\ RunEnded =>
              /\ executed = Len(benchmarks)
              /\ AllViolationsReported
              /\ outcome = "RegressionError" <=> \E i \in 1..Len(benchmarks) : Violating(i))
    /\ [][WrittenFailFast # Some(TRUE) /\ outcome = "running" /\ executed < Len(benchmarks) =>
              /\ executed' = executed + 1
              /\ outcome' = "running"]_vars

\* two benchmarks that violate the limit: both are executed, both violations
\* are reported and the run has failed
C20_Witness ==
    /\ given.origin = "cli"
    /\ given.regression_fail_fast = None
    /\ Len(benchmarks) = 2
    /\ Violating(1)
    /\ Violating(2)
    /\ executed = 2
    /\ outcome = "RegressionError"
    /\ Flagged(1, "Ir")
    /\ Flagged(2, "Ir")

(***************************************************************************)
(* The baseline arguments of the command line (runner/args.rs) and the     *)
(* baseline store                                                          *)
(***************************************************************************)
\* the names of the baselines; "default" is the name of an argument given
\* without a value
BaselineNames == {"default", "other"}

OptionalNames == {None} \cup {Some(name) : name \in BaselineNames}

\* the validation with the conflicts of --save-baseline left out
ValidateArgumentsWithoutConflicts(args) ==
    IF args.load_baseline.some /\ ~args.baseline.some
    THEN Err("MissingRequiredArgument")
    ELSE Ok(args)

\* the validation with the requirement of --load-baseline left out
ValidateArgumentsWithoutRequires(args) ==
    IF args.save_baseline.some /\ (args.baseline.some \/ args.load_baseline.some)
    THEN Err("ArgumentConflict")
    ELSE Ok(args)

\* the validation of the baseline arguments: save_baseline has
\* conflicts_with_all = ["baseline", "LOAD_BASELINE"], load_baseline has
\* requires = "baseline"
ValidateArguments(args) ==
    IF args.save_baseline.some /\ (args.baseline.some \/ args.load_baseline.some)
    THEN Err("ArgumentConflict")
    ELSE IF args.load_baseline.some /\ ~args.baseline.some
    THEN Err("MissingRequiredArgument")
    ELSE Ok(args)

\* the name of the baseline the run is compared against: the one of
\* --save-baseline or --baseline ("compare against this baseline if present")
ComparisonName(args) ==
    IF args.save_baseline.some THEN args.save_baseline ELSE args.baseline

\* the stored contents the run is compared against, if there are any
ComparisonTarget(args, store) ==
    IF ComparisonName(args).some THEN store[ComparisonName(args).val] ELSE None

\* the store with the baseline written only when the check has passed
PersistedUnlessRegressed(args, store, results, regressed) ==
    IF args.save_baseline.some /\ ~regressed
    THEN [store EXCEPT ![args.save_baseline.val] = Some(results)]
    ELSE store

\* the store with the results written under every name the arguments give
PersistedUnderEveryName(args, store, results, regressed) ==
    [name \in BaselineNames |->
        IF Some(name) \in {args.save_baseline, args.baseline, args.load_baseline}
        THEN Some(results)
        ELSE store[name]]

\* the store after the run: --save-baseline writes the results of the run
\* under its name, whatever the check has found; nothing else is written
Persisted(args, store, results, regressed) ==
    IF args.save_baseline.some
    THEN [store EXCEPT ![args.save_baseline.val] = Some(results)]
    ELSE store

\* the Ir counts of the runs
StoredResults == {100, 200}
NewResults == {100, 120}

InitStore ==
    /\ arguments \in [save_baseline : OptionalNames, baseline : OptionalNames,
                      load_baseline : OptionalNames]
    /\ original \in [BaselineNames -> {None} \cup {Some(ir) : ir \in StoredResults}]
    /\ stored = original
    /\ current = None
    /\ verdict = None
    /\ phase = "parsing"
    /\ ParseIdle
    /\ MergeIdle
    /\ PathIdle
    /\ MultiIdle
    /\ RunIdle
    /\ CallIdle

\* the command line is parsed: a combination that is not allowed ends the run
AcceptArguments ==
    /\ phase = "parsing"
    /\ phase' = IF ValidateArguments(arguments).ok THEN "accepted" ELSE "rejected"
    /\ UNCHANGED <<arguments, original, stored, current, verdict,
                   parse_vars, merge_vars, path_vars, multi_vars, run_vars, call_vars>>

\* the benchmark is executed; with --load-baseline the stored baseline of
\* that name is loaded as the new data set instead
Execute(ir) ==
    /\ phase = "accepted"
    /\ IF arguments.load_baseline.some
       THEN IF stored[arguments.load_baseline.val].some
            THEN /\ current' = stored[arguments.load_baseline.val]
                 /\ phase' = "executed"
            ELSE /\ phase' = "error"
                 /\ UNCHANGED current
       ELSE /\ current' = Some(ir)
            /\ phase' = "executed"
    /\ UNCHANGED <<arguments, original, stored, verdict,
                   parse_vars, merge_vars, path_vars, multi_vars, run_vars, call_vars>>

\* the regression check of the run against the comparison target, with the
\* default limit
Compare ==
    /\ phase = "executed"
    /\ LET old == ComparisonTarget(arguments, stored) IN
       verdict' = Some([old |-> old,
                        regressed |-> old.some
                                      /\ IsRegression(old.val, current.val, DefaultLimit[2])])
    /\ phase' = "compared"
    /\ UNCHANGED <<arguments, original, stored, current,
                   parse_vars, merge_vars, path_vars, multi_vars, run_vars, call_vars>>

\* the baseline is written and the run ends
Persist ==
    /\ phase = "compared"
    /\ stored' = Persisted(arguments, stored, current.val, verdict.val.regressed)
    /\ phase' = IF verdict.val.regressed THEN "failed" ELSE "passed"
    /\ UNCHANGED <<arguments, original, current, verdict,
                   parse_vars, merge_vars, path_vars, multi_vars, run_vars, call_vars>>

NextStore == AcceptArguments \/ (\E ir \in NewResults : Execute(ir)) \/ Compare \/ Persist

SpecStore == InitStore /\ [][NextStore]_vars

(***************************************************************************)
(* C21: save-baseline compares, then overwrites: when a baseline of the    *)
(* name exists, the regression check of the run is made against the old    *)
(* stored contents, and when the run has ended the stored baseline equals  *)
(* the results of the run, also when the check has failed.                 *)
(***************************************************************************)
\* the change from old to new violates the limit of +10%
ViolatesThreshold(old, new) ==
    IF old = 0 THEN new > 0 ELSE (new - old) * 100 >= 10 * old

C21_CompareThenOverwrite ==
    arguments.save_baseline.some =>
        /\ verdict.some =>
               /\ verdict.val.old = original[arguments.save_baseline.val]
               /\ verdict.val.old.some =>
                      (verdict.val.regressed
                           <=> ViolatesThreshold(verdict.val.old.val, current.val))
        /\ phase \in {"passed", "failed"} => stored[arguments.save_baseline.val] = current
        /\ phase \notin {"passed", "failed"} => stored = original

\* a run with --save-baseline whose check against the stored baseline has
\* failed: the baseline holds the results of the run
C21_Witness ==
    /\ arguments.save_baseline = Some("default")
    /\ original["default"] = Some(100)
    /\ phase = "failed"
    /\ current = Some(120)
    /\ stored["default"] = Some(120)

ForbiddenCombination ==
    \/ arguments.save_baseline.some /\ arguments.baseline.some
    \/ arguments.save_baseline.some /\ arguments.load_baseline.some
    \/ arguments.load_baseline.some /\ ~arguments.baseline.some

C23_BaselineArgumentsExclusive ==
    /\ ForbiddenCombination => phase \in {"parsing", "rejected"}
    /\ phase = "rejected" =>
           /\ ForbiddenCombination
           /\ current = None
           /\ verdict = None
           /\ stored = original

\* a command line with --save-baseline and --load-baseline has been rejected
C23_Witness ==
    /\ arguments.save_baseline = Some("default")
    /\ arguments.baseline = None
    /\ arguments.load_baseline = Some("other")
    /\ phase = "rejected"

(***************************************************************************)
(* impl Ord for SourcePath                                                  *)
(***************************************************************************)
\* the characters of the paths in the order of their codes; the separator,
\* which stands for the RootDir component, comes before every other one as
\* RootDir comes before every Normal component
AsciiOrder == <<"/">> \o Digits \o <<"?">> \o UpperCase \o LowerCase

CharCode(c) == CHOOSE i \in 1..Len(AsciiOrder) : AsciiOrder[i] = c

\* the comparison of two components: byte by byte
RECURSIVE ComponentCmp(_, _)
ComponentCmp(a, b) ==
    IF Len(a) = 0 /\ Len(b) = 0 THEN "Equal"
    ELSE IF Len(a) = 0 THEN "Less"
    ELSE IF Len(b) = 0 THEN "Greater"
    ELSE IF CharCode(a[1]) < CharCode(b[1]) THEN "Less"
    ELSE IF CharCode(a[1]) > CharCode(b[1]) THEN "Greater"
    ELSE ComponentCmp(Tail(a), Tail(b))

\* Path::cmp: component by component
RECURSIVE PathCmp(_, _)
PathCmp(a, b) ==
    IF Len(a) = 0 /\ Len(b) = 0 THEN "Equal"
    ELSE IF Len(a) = 0 THEN "Less"
    ELSE IF Len(b) = 0 THEN "Greater"
    ELSE IF ComponentCmp(a[1], b[1]) # "Equal" THEN ComponentCmp(a[1], b[1])
    ELSE PathCmp(Tail(a), Tail(b))

\* the comparison by the paths alone, Unknown taken for a SourcePath with
\* an empty path
SourcePathCmpByPath(self, other) == PathCmp(self.path, other.path)

\* the comparison with the variant compared before the path
SourcePathCmpByVariant(self, other) ==
    IF self = Unknown /\ other = Unknown THEN "Equal"
    ELSE IF self = Unknown THEN "Less"
    ELSE IF other = Unknown THEN "Greater"
    ELSE IF self.tag # other.tag
    THEN ComponentCmp(Chars(self.tag), Chars(other.tag))
    ELSE PathCmp(self.path, other.path)

\* impl Ord for SourcePath: fn cmp(&self, other: &Self) -> Ordering
SourcePathCmp(self, other) ==
    IF self = Unknown /\ other = Unknown THEN "Equal"
    ELSE IF self = Unknown THEN "Less"
    ELSE IF other = Unknown THEN "Greater"
    ELSE PathCmp(self.path, other.path)

(***************************************************************************)
(* The arguments of callgrind (runner/callgrind/args.rs)                    *)
(***************************************************************************)
O_I1 == <<"-", "-", "I", "1">>
O_D1 == <<"-", "-", "D", "1">>
O_LL == <<"-", "-", "L", "L">>
O_cache_sim == <<"-", "-", "c", "a", "c", "h", "e", "-", "s", "i", "m">>
O_toggle_collect == <<"-", "-", "t", "o", "g", "g", "l", "e", "-", "c", "o", "l", "l", "e", "c", "t">>
O_dump_instr == <<"-", "-", "d", "u", "m", "p", "-", "i", "n", "s", "t", "r">>
O_dump_line == <<"-", "-", "d", "u", "m", "p", "-", "l", "i", "n", "e">>
O_trace_children == <<"-", "-", "t", "r", "a", "c", "e", "-", "c", "h", "i", "l", "d", "r", "e", "n">>
O_separate_threads == <<"-", "-", "s", "e", "p", "a", "r", "a", "t", "e", "-", "t", "h", "r", "e", "a", "d", "s">>
O_fair_sched == <<"-", "-", "f", "a", "i", "r", "-", "s", "c", "h", "e", "d">>
O_compress_strings == <<"-", "-", "c", "o", "m", "p", "r", "e", "s", "s", "-", "s", "t", "r", "i", "n", "g", "s">>
O_compress_pos == <<"-", "-", "c", "o", "m", "p", "r", "e", "s", "s", "-", "p", "o", "s">>
O_combine_dumps == <<"-", "-", "c", "o", "m", "b", "i", "n", "e", "-", "d", "u", "m", "p", "s">>
O_v == <<"-", "v">>
O_verbose == <<"-", "-", "v", "e", "r", "b", "o", "s", "e">>

\* no key is ignored
NoIgnoredKeys == {}

\* the keys of the arguments that are ignored with a warning
IgnoredKeys ==
    {<<"-", "-", "c", "o", "m", "b", "i", "n", "e", "-", "d", "u", "m", "p", "s">>,
     <<"-", "-", "c", "a", "l", "l", "g", "r", "i", "n", "d", "-", "o", "u", "t", "-", "f", "i", "l", "e">>,
     <<"-", "-", "c", "o", "m", "p", "r", "e", "s", "s", "-", "s", "t", "r", "i", "n", "g", "s">>,
     <<"-", "-", "c", "o", "m", "p", "r", "e", "s", "s", "-", "p", "o", "s">>,
     <<"-", "-", "l", "o", "g", "-", "f", "i", "l", "e">>,
     <<"-", "-", "l", "o", "g", "-", "f", "d">>,
     <<"-", "-", "l", "o", "g", "-", "s", "o", "c", "k", "e", "t">>,
     <<"-", "-", "x", "m", "l">>,
     <<"-", "-", "x", "m", "l", "-", "f", "i", "l", "e">>,
     <<"-", "-", "x", "m", "l", "-", "f", "d">>,
     <<"-", "-", "x", "m", "l", "-", "s", "o", "c", "k", "e", "t">>,
     <<"-", "-", "x", "m", "l", "-", "u", "s", "e", "r", "-", "c", "o", "m", "m", "e", "n", "t">>,
     <<"-", "-", "t", "o", "o", "l">>}

\* the arguments without a value that are ignored with a warning
IgnoredFlags ==
    {<<"-", "h">>,
     <<"-", "-", "h", "e", "l", "p">>,
     <<"-", "-", "h", "e", "l", "p", "-", "d", "y", "n", "-", "o", "p", "t", "i", "o", "n", "s">>,
     <<"-", "-", "h", "e", "l", "p", "-", "d", "e", "b", "u", "g">>,
     <<"-", "-", "v", "e", "r", "s", "i", "o", "n">>,
     <<"-", "q">>,
     <<"-", "-", "q", "u", "i", "e", "t">>}

Yes == <<"y", "e", "s">>
No == <<"n", "o">>

\* util::yesno_to_bool
YesnoToBool(value) ==
    IF value = Yes THEN Some(TRUE) ELSE IF value = No THEN Some(FALSE) ELSE None

\* util::bool_to_yesno
BoolToYesno(value) == IF value THEN Yes ELSE No

\* FairSched::from_str: yes, no or try
FairSchedFromStr(value) ==
    IF value \in {Yes, No, <<"t", "r", "y">>}
    THEN Ok(value)
    ELSE Err([type |-> "InvalidFairSched", value |-> value])

\* Error::InvalidBoolArgument((key, value))
InvalidBoolArgument(key, value) ==
    [type |-> "InvalidBoolArgument", key |-> key, value |-> value]

\* impl Default for Args, with the defaults of valgrind the runner fixes
ArgsDefault ==
    [i1 |-> <<"1">>, d1 |-> <<"2">>, ll |-> <<"3">>, cache_sim |-> TRUE,
     other |-> <<>>, toggle_collect |-> <<>>, compress_strings |-> FALSE,
     compress_pos |-> FALSE, verbose |-> FALSE, dump_instr |-> FALSE,
     dump_line |-> TRUE, combine_dumps |-> FALSE, callgrind_out_file |-> None,
     log_arg |-> None, trace_children |-> FALSE, separate_threads |-> FALSE,
     fair_sched |-> <<"t", "r", "y">>]

\* the body of the loop of try_update for one argument: the Args after it and
\* whether a warning was logged, or the error that ends the loop
UpdateArg(self, arg) ==
    LET split == SplitOnce(Trim(arg), "=")
        key == Trim(split.val.key)
        value == Trim(split.val.value)
        bool == YesnoToBool(value)
        Set(updated) == Ok([args |-> updated, warned |-> FALSE])
        SetYesno(updated) ==
            IF bool.some THEN Set(updated) ELSE Err(InvalidBoolArgument(key, value))
    IN IF split.some
       THEN CASE key = O_I1 -> Set([self EXCEPT !.i1 = value])
              [] key = O_D1 -> Set([self EXCEPT !.d1 = value])
              [] key = O_LL -> Set([self EXCEPT !.ll = value])
              [] key = O_cache_sim -> SetYesno([self EXCEPT !.cache_sim = bool.val])
              [] key = O_toggle_collect ->
                     Set([self EXCEPT !.toggle_collect = Append(@, value)])
              [] key = O_dump_instr -> SetYesno([self EXCEPT !.dump_instr = bool.val])
              [] key = O_dump_line -> SetYesno([self EXCEPT !.dump_line = bool.val])
              [] key = O_trace_children ->
                     SetYesno([self EXCEPT !.trace_children = bool.val])
              [] key = O_separate_threads ->
                     SetYesno([self EXCEPT !.separate_threads = bool.val])
              [] key = O_fair_sched ->
                     IF FairSchedFromStr(value).ok
                     THEN Set([self EXCEPT !.fair_sched = FairSchedFromStr(value).val])
                     ELSE Err(FairSchedFromStr(value).err)
              [] key \in IgnoredKeys -> Ok([args |-> self, warned |-> TRUE])
              [] OTHER -> Set([self EXCEPT !.other = Append(@, arg)])
       ELSE IF arg = O_v \/ arg = O_verbose
       THEN Set([self EXCEPT !.verbose = TRUE])
       ELSE IF Trim(arg) \in IgnoredFlags
       THEN Ok([args |-> self, warned |-> TRUE])
       ELSE IF StartsWith(arg, <<"-">>)
       THEN Set([self EXCEPT !.other = Append(@, arg)])
       ELSE Set(self)

\* Args::try_update: the Args after the loop, the number of warnings logged
\* and the error, if an argument has ended the loop with one
RECURSIVE TryUpdate(_, _, _)
TryUpdate(self, warnings, args) ==
    IF Len(args) = 0
    THEN [args |-> self, warnings |-> warnings, error |-> None]
    ELSE LET updated == UpdateArg(self, args[1]) IN
         IF updated.ok
         THEN TryUpdate(updated.val.args,
                        IF updated.val.warned THEN warnings + 1 ELSE warnings, Tail(args))
         ELSE [args |-> self, warnings |-> warnings, error |-> Some(updated.err)]

\* the toggle is put after the others
InsertToggleCollectAtEnd(self, arg) == [self EXCEPT !.toggle_collect = Append(@, arg)]

\* Args::insert_toggle_collect
InsertToggleCollect(self, arg) == [self EXCEPT !.toggle_collect = <<arg>> \o @]

\* format!("{key}={value}")
KeyValue(key, value) == key \o <<"=">> \o value

\* impl From<Args> for ToolArgs
ToolArgsFrom(value) ==
    [tool |-> "Callgrind",
     output_paths |-> IF value.callgrind_out_file.some
                      THEN <<value.callgrind_out_file.val>>
                      ELSE <<>>,
     log_path |-> value.log_arg,
     verbose |-> value.verbose,
     trace_children |-> value.trace_children,
     fair_sched |-> value.fair_sched,
     other |-> <<KeyValue(O_I1, value.i1), KeyValue(O_D1, value.d1),
                 KeyValue(O_LL, value.ll),
                 KeyValue(O_cache_sim, BoolToYesno(value.cache_sim)),
                 KeyValue(O_compress_strings, BoolToYesno(value.compress_strings)),
                 KeyValue(O_compress_pos, BoolToYesno(value.compress_pos)),
                 KeyValue(O_dump_line, BoolToYesno(value.dump_line)),
                 KeyValue(O_dump_instr, BoolToYesno(value.dump_instr)),
                 KeyValue(O_combine_dumps, BoolToYesno(value.combine_dumps)),
                 KeyValue(O_separate_threads, BoolToYesno(value.separate_threads))>>
                    \o [i \in 1..Len(value.toggle_collect) |->
                           KeyValue(O_toggle_collect, value.toggle_collect[i])]
                    \o value.other]

(***************************************************************************)
(* The #[library_benchmark] attribute macro                                *)
(* iai-callgrind-macros/src/lib_bench.rs                                   *)
(* An identifier is the sequence of the parts of its name; an attribute is *)
(* a record of its kind, its id and what its arguments give.               *)
(***************************************************************************)

\* format_ident(prefix, Some(id))
FormatIdent(prefix, id) == <<prefix>> \o id

\* impl Parse for LibraryBenchmark: the config parameter of the attribute and
\* no benches
LibraryBenchmarkParse(macro_config) == [config |-> macro_config, benches |-> <<>>]

\* Bench::parse_bench_attribute
ParseBenchAttribute(attr, id) ==
    [id |-> id, mode |-> "Args", args |-> attr.args, config |-> attr.config]

\* common::Bench::from_benches_attribute: one bench per element of the
\* attribute, each with an id made of the id of the attribute
FromBenchesAttribute(id, attr) ==
    [i \in 1..Len(attr.elements) |->
        [id |-> id \o <<attr.elements[i].index>>, mode |-> attr.elements[i].mode,
         args |-> attr.elements[i].args]]

\* Bench::parse_benches_attribute
ParseBenchesAttribute(attr, id) ==
    LET elements == FromBenchesAttribute(id, attr) IN
    [i \in 1..Len(elements) |->
        [id |-> elements[i].id, mode |-> elements[i].mode, args |-> elements[i].args,
         config |-> attr.config]]

\* LibraryBenchmark::extract_benches: the benches of the attributes of the
\* function in their order, or the error of the first attribute that is
\* neither bench nor benches
RECURSIVE ExtractBenches(_, _)
ExtractBenches(self, attrs) ==
    IF Len(attrs) = 0
    THEN Ok(self)
    ELSE LET attr == attrs[1] IN
         CASE attr.kind = "bench" ->
                  ExtractBenches(
                      [self EXCEPT !.benches =
                          Append(@, ParseBenchAttribute(attr, attr.id))],
                      Tail(attrs))
           [] attr.kind = "benches" ->
                  ExtractBenches(
                      [self EXCEPT !.benches = @ \o ParseBenchesAttribute(attr, attr.id)],
                      Tail(attrs))
           [] OTHER -> Err([type |-> "Invalid attribute", segment |-> attr.kind])

\* every bench renders its config as None
BenchConfigRenderAsMemberNone(self, id) == None

\* BenchConfig::render_as_member
BenchConfigRenderAsMember(self, id) ==
    IF self.some THEN Some(FormatIdent("__get_config", id)) ELSE None

\* BenchConfig::render_as_code: the function that returns the config of a
\* bench, if it has one
BenchConfigRenderAsCode(self, id) ==
    IF self.some
    THEN <<[ident |-> FormatIdent("__get_config", id), returns |-> self.val]>>
    ELSE <<>>

\* Bench::render_as_member
BenchRenderAsMember(self) ==
    [id_display |-> Some(self.id),
     args_display |-> Some(self.args),
     func |-> [kind |-> IF self.mode = "Iter" THEN "Iter" ELSE "Default",
               run |-> FormatIdent("__run", self.id)],
     config |-> BenchConfigRenderAsMember(self.config, self.id)]

\* LibraryBenchmarkConfig::render_as_code: the function __get_config and
\* what it returns
LibraryBenchmarkConfigRenderAsCode(self) ==
    [ident |-> <<"__get_config">>, returns |-> self]

\* LibraryBenchmark::render_standalone
RenderStandalone(self) ==
    [BENCHES |-> <<[id_display |-> None,
                    args_display |-> None,
                    func |-> [kind |-> "Default",
                              run |-> FormatIdent("__run", <<"wrapper">>)],
                    config |-> None]>>,
     get_config |-> LibraryBenchmarkConfigRenderAsCode(self.config),
     funcs |-> <<>>]

\* the loop of render_benches over the benches that are left
RECURSIVE RenderLoop(_, _, _)
RenderLoop(benches_left, funcs, lib_benches) ==
    IF Len(benches_left) = 0
    THEN [funcs |-> funcs, lib_benches |-> lib_benches]
    ELSE LET bench == benches_left[1] IN
         RenderLoop(Tail(benches_left),
                    funcs \o BenchConfigRenderAsCode(bench.config, bench.id),
                    Append(lib_benches, BenchRenderAsMember(bench)))

\* LibraryBenchmark::render_benches
RenderBenches(self) ==
    LET rendered == RenderLoop(self.benches, <<>>, <<>>) IN
    [BENCHES |-> rendered.lib_benches,
     get_config |-> LibraryBenchmarkConfigRenderAsCode(self.config),
     funcs |-> rendered.funcs]

\* render(args, input)
Render(macro_config, attrs) ==
    LET extracted == ExtractBenches(LibraryBenchmarkParse(macro_config), attrs) IN
    IF ~extracted.ok
    THEN Err(extracted.err)
    ELSE IF Len(extracted.val.benches) = 0
    THEN Ok(RenderStandalone(extracted.val))
    ELSE Ok(RenderBenches(extracted.val))

(***************************************************************************)
(* Calls of functions with arguments drawn from small sets                 *)
(***************************************************************************)
MaxItems == 2
MaxArgs == 3
MaxAttrs == 2

\* the keys of the items of a --regression text, each with the event kind it
\* names, if it names one
ItemKeys ==
    {[text |-> <<"i", "R">>, event_kind |-> Some("Ir")],
     [text |-> <<"E", "s", "t", "I", "M", "A", "T", "e", "d", "C", "y", "c", "l", "e", "s">>, event_kind |-> Some("EstimatedCycles")],
     [text |-> <<"W", "R", "O", "N", "G">>, event_kind |-> None]}

\* the values of the items, each with the number it is, if it is one
ItemValues ==
    {[text |-> <<"1", "0">>, number |-> Some(F64(10, 1))],
     [text |-> <<"-", "5", ".", "5">>, number |-> Some(F64(0 - 55, 10))],
     [text |-> <<"1", "0", ".", "0", ".", "0">>, number |-> None]}

\* an item: a key, a separator and a value, with or without blanks around
\* each of them. The well-formed items, and the items with one flaw: a key
\* that is no event kind, a value that is no number, or another separator
Items ==
    [key : {key \in ItemKeys : key.event_kind.some},
     value : {value \in ItemValues : value.number.some},
     separator : {"="}, blanks : BOOLEAN]
        \cup [key : {key \in ItemKeys : ~key.event_kind.some},
              value : {value \in ItemValues : value.number.some},
              separator : {"="}, blanks : {FALSE}]
        \cup [key : {key \in ItemKeys : key.event_kind.some},
              value : {value \in ItemValues : ~value.number.some},
              separator : {"="}, blanks : {TRUE}]
        \cup [key : {key \in ItemKeys : key.event_kind.some},
              value : {value \in ItemValues : value.number.some},
              separator : {":"}, blanks : {FALSE}]

\* the text of an item
ItemText(item) ==
    LET blank == IF item.blanks THEN <<" ">> ELSE <<>> IN
    blank \o item.key.text \o blank \o <<item.separator>> \o blank \o item.value.text \o blank

\* the text of a list of items
RECURSIVE ListText(_)
ListText(items) ==
    IF Len(items) = 1
    THEN ItemText(items[1])
    ELSE ItemText(items[1]) \o <<",">> \o ListText(Tail(items))

\* the texts that are no list of items: "default", and texts without an item
DefaultTexts == {<<"d", "e", "f", "a", "u", "l", "t">>, <<"D", "e", "f", "A", "u", "l", "T">>, <<" ", "D", "E", "F", "A", "U", "L", "T", " ">>}

LiteralTexts == DefaultTexts \cup {<<>>, <<" ", " ">>}

\* the arguments of a call of parse_regression_config
RegressionConfigCalls ==
    {[fn |-> "parse_regression_config", items |-> <<>>, text |-> text] :
         text \in LiteralTexts}
        \cup UNION {{[fn |-> "parse_regression_config", items |-> items,
                      text |-> ListText(items)] : items \in [1..n -> Items]} :
                        n \in 1..MaxItems}

\* the paths of the SourcePaths compared
ComparedPaths ==
    {<<>>, <<<<"a">>>>, <<<<"a">>, <<"b">>>>, <<<<"a", "b">>>>, <<<<"B">>>>,
     <<RootDir, <<"a">>>>, <<RootDir, <<"r", "u", "s", "t", "c">>, <<"0", "1">>>>}

SourcePaths ==
    {Unknown} \cup {Rust(p) : p \in ComparedPaths} \cup {Relative(p) : p \in ComparedPaths}
        \cup {Absolute(p) : p \in ComparedPaths}

\* the arguments of a call of SourcePath::cmp
SourcePathCalls == [fn : {"cmp"}, self : SourcePaths, other : SourcePaths]

\* raw arguments that are ignored: keys with a value, with and without
\* blanks, and arguments without a value
IgnoredArguments ==
    {<<"-", "-", "t", "o", "o", "l", "=", "x">>,
     <<" ", "-", "-", "x", "m", "l", "-", "f", "i", "l", "e", " ", "=", " ", "f", " ">>,
     <<"-", "-", "c", "a", "l", "l", "g", "r", "i", "n", "d", "-", "o", "u", "t", "-", "f", "i", "l", "e", "=", "o">>,
     <<"-", "-", "c", "o", "m", "p", "r", "e", "s", "s", "-", "s", "t", "r", "i", "n", "g", "s", "=", "y", "e", "s">>,
     <<"-", "q">>,
     <<" ", "-", "-", "h", "e", "l", "p", " ">>}

\* raw arguments that are not ignored: options, one with a value that is no
\* yes or no, a toggle, an unknown key, an unknown flag, a positional
\* argument and -v, and two arguments that no arm for ignored arguments
\* matches: an ignored key without a value and an ignored flag with a value;
\* a second value of an option and a second toggle
OtherArguments ==
    {<<"-", "-", "I", "1", " ", "=", " ", "b">>,
     <<"-", "-", "t", "o", "g", "g", "l", "e", "-", "c", "o", "l", "l", "e", "c", "t", "=", "u">>,
     <<"-", "-", "t", "o", "o", "l">>,
     <<"-", "-", "v", "e", "r", "s", "i", "o", "n", "=", "1">>,
     <<"-", "-", "I", "1", "=", "a">>,
     <<"-", "-", "c", "a", "c", "h", "e", "-", "s", "i", "m", "=", "n", "o">>,
     <<"-", "-", "c", "a", "c", "h", "e", "-", "s", "i", "m", "=", "m", "a", "y", "b", "e">>,
     <<"-", "-", "t", "o", "g", "g", "l", "e", "-", "c", "o", "l", "l", "e", "c", "t", "=", "t">>,
     <<"-", "-", "f", "o", "o", "=", "1">>,
     <<"-", "x">>,
     <<"p", "o", "s">>,
     <<"-", "v">>}

RawArguments == IgnoredArguments \cup OtherArguments

\* the arguments of a call of Args::try_update
\* with or without a toggle inserted by insert_toggle_collect before the
\* call and another one after it
TryUpdateCalls ==
    [fn : {"try_update"}, self : {ArgsDefault}, inserted : {<<>>},
     args : UNION {[1..n -> RawArguments] : n \in 0..MaxArgs}]
        \cup [fn : {"try_update"}, self : {InsertToggleCollect(ArgsDefault, <<"m">>)},
              inserted : {<<<<"n">>>>},
              args : UNION {[1..n -> RawArguments] : n \in 0..MaxArgs}]

\* a config parameter: none, or one of two expressions
OptionalConfigs == {None, Some("LibraryBenchmarkConfig::default()")}

\* the ids of the attributes
AttributeIds == {<<"first">>, <<"second">>}

\* what the arguments of a benches attribute give: one or two elements with
\* arguments, or one element that iterates
BenchesElements ==
    {<<[index |-> "0", mode |-> "Args", args |-> "1"]>>,
     <<[index |-> "0", mode |-> "Args", args |-> "1"],
       [index |-> "1", mode |-> "Args", args |-> "2"]>>,
     <<[index |-> "0", mode |-> "Iter", args |-> "vec![1, 2]"]>>}

\* the attributes of the benchmark function: bench and benches attributes,
\* and an attribute that is neither
Attributes ==
    [kind : {"bench"}, id : AttributeIds, config : OptionalConfigs, args : {"1"}]
        \cup [kind : {"benches"}, id : AttributeIds, config : OptionalConfigs,
              elements : BenchesElements]
        \cup {[kind |-> "inline"]}

\* the arguments of a call of render
RenderCalls ==
    [fn : {"render"}, config : OptionalConfigs,
     attrs : UNION {[1..n -> Attributes] : n \in 0..MaxAttrs}]

Calls == RegressionConfigCalls \cup SourcePathCalls \cup TryUpdateCalls \cup RenderCalls

InitCalls ==
    /\ call_args \in Calls
    /\ call_result = None
    /\ ParseIdle
    /\ MergeIdle
    /\ PathIdle
    /\ MultiIdle
    /\ RunIdle
    /\ StoreIdle

\* parse_regression_config(text)
CallParseRegressionConfig ==
    /\ call_args.fn = "parse_regression_config"
    /\ ~call_result.some
    /\ call_result' = Some(parse_regression_config(call_args.text))
    /\ UNCHANGED <<call_args, parse_vars, merge_vars, path_vars, multi_vars, run_vars,
                   store_vars>>

\* self.cmp(other)
CallCmp ==
    /\ call_args.fn = "cmp"
    /\ ~call_result.some
    /\ call_result' = Some(SourcePathCmp(call_args.self, call_args.other))
    /\ UNCHANGED <<call_args, parse_vars, merge_vars, path_vars, multi_vars, run_vars,
                   store_vars>>

\* insert_toggle_collect for every toggle of the sequence, in its order
RECURSIVE InsertToggles(_, _)
InsertToggles(self, toggles) ==
    IF Len(toggles) = 0
    THEN self
    ELSE InsertToggles(InsertToggleCollect(self, toggles[1]), Tail(toggles))

\* self.try_update(args), and ToolArgs::from(self) if it has not failed; then
\* the toggles that are inserted after the call, and ToolArgs::from(self)
CallTryUpdate ==
    /\ call_args.fn = "try_update"
    /\ ~call_result.some
    /\ LET updated == TryUpdate(call_args.self, 0, call_args.args)
           final == InsertToggles(updated.args, call_args.inserted)
       IN call_result' =
           Some([args |-> updated.args, warnings |-> updated.warnings,
                 error |-> updated.error,
                 tool_args |-> IF updated.error.some
                               THEN None
                               ELSE Some(ToolArgsFrom(updated.args)),
                 final_args |-> final,
                 final_tool_args |-> IF updated.error.some
                                     THEN None
                                     ELSE Some(ToolArgsFrom(final))])
    /\ UNCHANGED <<call_args, parse_vars, merge_vars, path_vars, multi_vars, run_vars,
                   store_vars>>

\* render(args, input)
CallRender ==
    /\ call_args.fn = "render"
    /\ ~call_result.some
    /\ call_result' = Some(Render(call_args.config, call_args.attrs))
    /\ UNCHANGED <<call_args, parse_vars, merge_vars, path_vars, multi_vars, run_vars,
                   store_vars>>

NextCalls == CallParseRegressionConfig \/ CallCmp \/ CallTryUpdate \/ CallRender

SpecCalls == InitCalls /\ [][NextCalls]_vars

(***************************************************************************)
(* C24: parse_regression_config matches the names of the event kinds       *)
(* whatever the case of their letters and returns one (EventKind,          *)
(* percentage) pair per item of the comma-separated list, in the order of  *)
(* the text, whatever blanks stand around items, keys and values, with     *)
(* fail_fast unset; the text "default" in any letter case gives the        *)
(* default configuration, whose list of limits is empty.                   *)
(***************************************************************************)
\* the item is a key that names an event kind, "=" and a number
WellFormed(item) ==
    item.separator = "=" /\ item.key.event_kind.some /\ item.value.number.some

C24_ParseRegressionConfig ==
    call_args.fn = "parse_regression_config" /\ call_result.some =>
        /\ (call_args.items # <<>> /\ \A i \in 1..Len(call_args.items) :
                                          WellFormed(call_args.items[i])) =>
               call_result.val =
                   Ok([limits |-> [i \in 1..Len(call_args.items) |->
                                      <<call_args.items[i].key.event_kind.val,
                                        call_args.items[i].value.number.val>>],
                       fail_fast |-> None])
        /\ call_args.text \in DefaultTexts =>
               call_result.val = Ok([limits |-> <<>>, fail_fast |-> None])

\* a list of two limits of different event kinds, written with blanks, has
\* been parsed
C24_Witness ==
    /\ call_args.fn = "parse_regression_config"
    /\ Len(call_args.items) = 2
    /\ call_args.items[1].blanks
    /\ call_args.items[1].key.event_kind = Some("EstimatedCycles")
    /\ call_args.items[2].key.event_kind = Some("Ir")
    /\ call_result.some
    /\ call_result.val.ok
    /\ Len(call_result.val.val.limits) = 2

(***************************************************************************)
(* C25: parse_regression_config returns an error, and no configuration,    *)
(* when the text is empty or blank, when an item has no "=", when a name   *)
(* is no event kind, or when a percentage is no number, wherever the item  *)
(* stands in the list; the error ends the run when the command line is     *)
(* parsed, before any benchmark is executed.                               *)
(***************************************************************************)
\* the error of a text that is no list of limits
ExpectedError(text) ==
    CASE text \in {B_empty, B_blank} ->
             [text |-> "No limits found: At least one limit must be specified"]
      [] text = B_format ->
             [text |-> "Invalid format of key/value pair", item |-> B_format]
      [] text = B_format_last ->
             [text |-> "Invalid format of key/value pair",
              item |-> SubSeq(B_format_last, 7, Len(B_format_last))]
      [] text = B_kind_first ->
             [text |-> "Unknown event kind", item |-> SubSeq(B_kind_first, 1, 5)]
      [] text \in {R_bad, B_number_last} ->
             [text |-> "Invalid percentage for", item |-> SubSeq(text, 1, 2)]

C25_ParseRegressionConfigErrors ==
    given.origin = "cli" /\ given.regression.some =>
        /\ given.regression.val \in BadTexts =>
               /\ outcome \in {"configuring", "ArgumentError"}
               /\ config = None
               /\ executed = 0
               /\ regressions = <<>>
               /\ parse_regression_config(given.regression.val)
                      = Err(ExpectedError(given.regression.val))
        /\ outcome = "ArgumentError" => given.regression.val \in BadTexts

\* the text WRONG=10,Ir=10 has ended the run: nothing was executed
C25_Witness ==
    /\ given.origin = "cli"
    /\ given.regression = Some(B_kind_first)
    /\ Len(benchmarks) = 2
    /\ outcome = "ArgumentError"
    /\ executed = 0

(***************************************************************************)
(* C26: a RegressionConfig without limits is checked as if it held the one *)
(* limit (Ir, +10%); one with limits is checked with its own limits and    *)
(* not with that default.  Stated for the runs that report every           *)
(* violation and the benchmarks executed so far.                           *)
(***************************************************************************)
\* a configuration is given and it has no limits
WithoutLimits ==
    \/ given.origin = "api" /\ given.limits = <<>>
    \/ given.origin = "cli" /\ given.regression = Some(R_default)

\* the violations recorded for the benchmarks executed are those of the limits
RecordedAreOf(limits) ==
    /\ \A i \in 1..executed : \A limit \in limits :
           Flagged(i, limit[1]) <=> ViolatesLimit(i, limit)
    /\ \A n \in 1..Len(regressions) :
           \E limit \in limits :
               /\ regressions[n].event_kind = limit[1]
               /\ regressions[n].limit.num = limit[2] * regressions[n].limit.den

C26_DefaultLimit ==
    WrittenFailFast # Some(TRUE) /\ outcome \in {"running", "Ok", "RegressionError"} =>
        /\ WithoutLimits => RecordedAreOf({<<"Ir", 10>>})
        /\ WrittenLimits # {} => RecordedAreOf(WrittenLimits)

\* a configuration without limits has flagged a change of Ir of +10% and
\* has not flagged one of +9%
C26_Witness ==
    /\ given.origin = "api"
    /\ given.limits = <<>>
    /\ benchmarks = <<Benchmark(IrOnly(100), IrOnly(110)), Benchmark(IrOnly(100), IrOnly(109))>>
    /\ executed = 2
    /\ Flagged(1, "Ir")
    /\ ~Flagged(2, "Ir")

(***************************************************************************)
(* C27: the order of SourcePath puts Unknown first and orders all other    *)
(* values by their path: Unknown is equal to Unknown and less than every   *)
(* Rust, Relative and Absolute value, and two values that are not Unknown  *)
(* compare as their paths compare, whatever their variants.                *)
(***************************************************************************)
\* the path a comes before the path b: at the first component that differs,
\* or b goes on where a ends; a component comes before another one at the
\* first character that differs, or where it ends
ComponentBefore(a, b) ==
    \E n \in 0..Len(a) :
        /\ n <= Len(b)
        /\ SubSeq(a, 1, n) = SubSeq(b, 1, n)
        /\ \/ n = Len(a) /\ n < Len(b)
           \/ n < Len(a) /\ n < Len(b) /\ CharCode(a[n + 1]) < CharCode(b[n + 1])

PathBefore(a, b) ==
    \E n \in 0..Len(a) :
        /\ n <= Len(b)
        /\ SubSeq(a, 1, n) = SubSeq(b, 1, n)
        /\ \/ n = Len(a) /\ n < Len(b)
           \/ n < Len(a) /\ n < Len(b) /\ ComponentBefore(a[n + 1], b[n + 1])

C27_SourcePathOrder ==
    call_args.fn = "cmp" /\ call_result.some =>
        LET self == call_args.self
            other == call_args.other
        IN /\ self.tag = "Unknown" /\ other.tag = "Unknown" => call_result.val = "Equal"
           /\ self.tag = "Unknown" /\ other.tag # "Unknown" => call_result.val = "Less"
           /\ self.tag # "Unknown" /\ other.tag = "Unknown" => call_result.val = "Greater"
           /\ self.tag # "Unknown" /\ other.tag # "Unknown" =>
                  /\ call_result.val = "Less" <=> PathBefore(self.path, other.path)
                  /\ call_result.val = "Greater" <=> PathBefore(other.path, self.path)
                  /\ call_result.val = "Equal" <=> self.path = other.path

\* an Absolute and a Relative value have been compared by their paths, which
\* the order of the variants would have put the other way round
C27_Witness ==
    /\ call_args.fn = "cmp"
    /\ call_args.self = Relative(<<<<"a">>>>)
    /\ call_args.other = Absolute(<<<<"a">>, <<"b">>>>)
    /\ call_result = Some("Less")

(***************************************************************************)
(* C28: the counts saturate: when adding the count of a numeric line to    *)
(* an entry, or adding two entries in a merge, would go beyond the largest *)
(* count, the stored count is the largest count; it never wraps around to  *)
(* a small value and the operation does not fail.  Stated for files whose  *)
(* lines are fn=f, a line with the count U64Max - 2 and a line with the    *)
(* count 5: the count of an entry is the total of the counted lines, or    *)
(* the largest count if the total is beyond it.                            *)
(***************************************************************************)
\* the count of a cost line
CountOf(l) == IF l = L_cost_large THEN U64Max - 2 ELSE IF l = L_cost_short THEN 5 ELSE 0

\* the total of the counts of the lines n.. of a trace, at most the largest count
RECURSIVE TotalFrom(_, _)
TotalFrom(lines, n) ==
    IF n > Len(lines)
    THEN 0
    ELSE LET rest == TotalFrom(lines, n + 1) IN
         IF CountOf(lines[n]) > U64Max - rest THEN U64Max ELSE CountOf(lines[n]) + rest

\* the total of the file: the lines before the first fn= line belong to no
\* function and are passed over
FileTotal(file) ==
    LET lines == FrameOf(file).trace.val IN
    IF \E n \in 1..Len(lines) : lines[n] = L_fn_f
    THEN TotalFrom(lines, CHOOSE n \in 1..Len(lines) :
                              lines[n] = L_fn_f /\ \A k \in 1..(n - 1) : lines[k] # L_fn_f)
    ELSE 0

\* the total of the files merged, at most the largest count
RECURSIVE MergedTotal(_)
MergedTotal(files) ==
    IF files = {}
    THEN 0
    ELSE LET file == CHOOSE f \in files : TRUE
             rest == MergedTotal(files \ {file})
         IN IF FileTotal(file) > U64Max - rest THEN U64Max ELSE FileTotal(file) + rest

\* the files merged so far that have an entry
MergedWithEntry ==
    {file \in merged : DOMAIN FrameOf(file).result.value.val.map # {}}

C28_CountsSaturate ==
    /\ \A file \in LargeFiles :
           /\ FrameOf(file).result.kind # "Panicked"
           /\ FrameOf(file).result.kind = "Returned" => FrameOf(file).result.value.ok
           /\ \A id \in DOMAIN FrameOf(file).fn_totals :
                  FrameOf(file).fn_totals[id].metrics[1].cost = FileTotal(file)
           /\ FrameOf(file).pc = "done" =>
                  \A id \in DOMAIN FrameOf(file).result.value.val.map :
                      FrameOf(file).result.value.val.map[id].metrics[1].cost = FileTotal(file)
    /\ \A id \in DOMAIN accumulator.map :
           accumulator.map[id].metrics[1].cost = MergedTotal(MergedWithEntry)

\* one file whose two lines add up beyond the largest count and one file
\* below it: the entries of the first file and of the merged map hold the
\* largest count
C28_Witness ==
    /\ running \in LargeFiles
    /\ merged = LargeFiles
    /\ \E a, b \in LargeFiles :
           /\ FrameOf(a).trace.val = <<L_fn_f, L_cost_large, L_cost_short>>
           /\ FrameOf(b).trace.val = <<L_fn_f, L_cost_short>>
           /\ FrameOf(a).result.value.val.map[IdF].metrics[1].cost = U64Max
           /\ FrameOf(b).result.value.val.map[IdF].metrics[1].cost = 5
    /\ accumulator.map[IdF].metrics[1].cost = U64Max

\* the arguments of a sequence that are not among the ignored ones
WithoutIgnored(args) == SelectSeq(args, LAMBDA arg : arg \notin IgnoredArguments)

\* the number of ignored arguments of a sequence
RECURSIVE CountIgnored(_)
CountIgnored(args) ==
    IF Len(args) = 0
    THEN 0
    ELSE (IF args[1] \in IgnoredArguments THEN 1 ELSE 0) + CountIgnored(Tail(args))

\* the elements of a sequence
Elements(sequence) == {sequence[i] : i \in 1..Len(sequence)}

\* C29: an ignored argument of try_update only produces a warning: the call
\* fails, and ends with the fields of Args and with the ToolArgs built from
\* them, exactly as the call without the ignored arguments does; no ignored
\* argument is among the passed on arguments, and when the call does not
\* fail every ignored argument has produced one warning
C29_IgnoredArgumentsOnlyWarn ==
    call_args.fn = "try_update" /\ call_result.some =>
        LET returned == call_result.val
            plain == TryUpdate(call_args.self, 0, WithoutIgnored(call_args.args))
            ignored == CountIgnored(call_args.args)
        IN /\ returned.error = plain.error
           /\ returned.args = plain.args
           /\ returned.tool_args =
                  (IF plain.error.some THEN None ELSE Some(ToolArgsFrom(plain.args)))
           /\ Elements(returned.args.other) \cap IgnoredArguments = {}
           /\ returned.tool_args.some =>
                  Elements(returned.tool_args.val.other) \cap IgnoredArguments = {}
           /\ returned.warnings <= ignored
           /\ ~returned.error.some => returned.warnings = ignored

\* a call with an ignored key, an option and an ignored flag has set the
\* option, passed nothing on and warned twice
C29_Witness ==
    /\ call_args.fn = "try_update"
    /\ call_args.args = <<<<"-", "-", "t", "o", "o", "l", "=", "x">>, <<"-", "-", "I", "1", "=", "a">>, <<" ", "-", "-", "h", "e", "l", "p", " ">>>>
    /\ call_result.some
    /\ ~call_result.val.error.some
    /\ call_result.val.warnings = 2
    /\ call_result.val.args = [call_args.self EXCEPT !.i1 = <<"a">>]
    /\ call_result.val.tool_args.val.other[1] = <<"-", "-", "I", "1", "=", "a">>

\* the ids and the configs of the entries the attributes call for: one of a
\* bench attribute, one of every element of a benches attribute
RECURSIVE Expected(_)
Expected(attrs) ==
    IF Len(attrs) = 0
    THEN <<>>
    ELSE (IF attrs[1].kind = "bench"
          THEN <<[id |-> attrs[1].id, config |-> attrs[1].config]>>
          ELSE [i \in 1..Len(attrs[1].elements) |->
                   [id |-> FromBenchesAttribute(attrs[1].id, attrs[1])[i].id,
                    config |-> attrs[1].config]])
         \o Expected(Tail(attrs))

\* C30: the __BENCHES of a rendered module has one entry per bench attribute
\* and per element of a benches attribute, in the order of the attributes,
\* with the id as id_display and with the config Some(__get_config_<id>)
\* exactly when the attribute gave a config; without such an attribute it
\* has one entry with id_display, args_display and config None, whatever the
\* config of the library_benchmark attribute
C30_BenchesList ==
    call_args.fn = "render" /\ call_result.some /\ call_result.val.ok =>
        LET BENCHES == call_result.val.val.BENCHES
            expected == Expected(call_args.attrs)
        IN IF Len(call_args.attrs) = 0
           THEN /\ Len(BENCHES) = 1
                /\ BENCHES[1].id_display = None
                /\ BENCHES[1].args_display = None
                /\ BENCHES[1].config = None
           ELSE /\ Len(BENCHES) = Len(expected)
                /\ \A i \in 1..Len(expected) :
                      /\ BENCHES[i].id_display = Some(expected[i].id)
                      /\ expected[i].config.some =>
                            BENCHES[i].config =
                                Some(<<"__get_config">> \o expected[i].id)
                      /\ ~expected[i].config.some => BENCHES[i].config = None

\* the module of a function with a bench attribute with a config followed
\* by one without has been rendered
C30_Witness ==
    /\ call_args.fn = "render"
    /\ call_args.config = None
    /\ Len(call_args.attrs) = 2
    /\ call_args.attrs[1] =
           [kind |-> "bench", id |-> <<"first">>,
            config |-> Some("LibraryBenchmarkConfig::default()"), args |-> "1"]
    /\ call_args.attrs[2] =
           [kind |-> "bench", id |-> <<"second">>, config |-> None, args |-> "1"]
    /\ call_result.some
    /\ call_result.val.ok
    /\ Len(call_result.val.val.BENCHES) = 2
    /\ call_result.val.val.BENCHES[1].config = Some(<<"__get_config", "first">>)
    /\ call_result.val.val.BENCHES[2].config = None

\* C31: a cost line folded for a pending call-site record is added to the
\* caller as well: the entry of the current function in fn_totals grows by
\* the metrics of the line by which the entry of the callee in cfn_totals
\* grows, and no other entry of fn_totals changes
C31_CallSiteLineAddedToCaller ==
    [][(/\ CostStep
        /\ ColumnsAreIntegers(line')
        /\ current_id.func.some
        /\ cfn_record.some
        /\ cfn_record.val.id.some) =>
         /\ pc' = "body"
         /\ cfn_totals' = Folded(cfn_totals, cfn_record.val.id.val, CostOfText(line'))
         /\ fn_totals' = Folded(fn_totals, CurrentFunction, CostOfText(line'))]_vars

\* fn=f, a line of its own with the count 3, cfn=g and the call-site line
\* with the count 3: g holds 3 and f holds 3 + 3
C31_Witness ==
    /\ pc = "body"
    /\ lines_read = 4
    /\ line = L_cost
    /\ metrics_prototype.some
    /\ Len(metrics_prototype.val) = 1
    /\ positions_prototype.val = <<<<"l", "i", "n", "e">>>>
    /\ cfn_record = None
    /\ DOMAIN cfn_totals = {Id(None, None, <<"g">>)}
    /\ cfn_totals[Id(None, None, <<"g">>)].metrics[1].cost = 3
    /\ DOMAIN fn_totals = {Id(None, None, <<"f">>)}
    /\ fn_totals[Id(None, None, <<"f">>)].metrics[1].cost = 6

\* the cfn= line whose record is pending when line i of b is read: the last
\* cfn= line before i with no cost line after it and before i, 0 if none
PendingCfn(b, i) ==
    LET set == {j \in 1..(i - 1) :
                   /\ HasKey(b[j], {K_cfn})
                   /\ \A k \in (j + 1)..(i - 1) : ~(k \in CostIndexes(b))}
    IN IF set = {} THEN 0 ELSE CHOOSE j \in set : \A k \in set : k <= j

\* the Id of the callee of the cfn= line j of b, for a body without cob=,
\* cfi= and cfl= lines
CalleeAt(b, j) ==
    Id(PathOf(LastValue(b, j, {K_ob})),
       PathOf(LastValue(b, j, {K_fl, K_fi, K_fe})),
       SubSeq(b[j], FirstIndex(b[j], "=") + 1, Len(b[j])))

\* the call-site lines of b: the cost lines read with a pending record
CallSiteIndexes(b) == {i \in CostIndexes(b) : PendingCfn(b, i) # 0}

\* the Ids that received a call-site line as a callee
Callees(b) == {CalleeAt(b, PendingCfn(b, i)) : i \in CallSiteIndexes(b)}

\* C32: in the returned map the entry of every Id that received a call-site
\* line as a callee is the sum of its call-site lines alone, and the entry
\* of every other Id is the sum of the cost lines read while it was the
\* current function
C32_CalleeTotalsReplace ==
    (result.kind = "Returned" /\ result.value.ok) =>
        LET b == Body
            map == result.value.val.map
        IN /\ DOMAIN map = Callees(b) \cup {IdAt(b, i) : i \in CostIndexes(b)}
           /\ \A id \in DOMAIN map :
                 map[id] =
                     Value(SumOfCosts(b,
                         IF id \in Callees(b)
                         THEN {i \in CallSiteIndexes(b) :
                                  CalleeAt(b, PendingCfn(b, i)) = id}
                         ELSE {i \in CostIndexes(b) : IdAt(b, i) = id}))

\* fn=g, a line of g with the count 3, cfn=g and the call-site line with the
\* count 3: the entry of g is 3, the call-site line alone, and neither 6 nor 9
C32_Witness ==
    /\ result.kind = "Returned"
    /\ result.value.ok
    /\ trace.val = <<L_fn_g, L_cost, L_cfn, L_cost>>
    /\ positions_prototype.val = <<<<"l", "i", "n", "e">>>>
    /\ Len(metrics_prototype.val) = 1
    /\ result.value.val.map =
          (Id(None, None, <<"g">>) :> Value(<<[kind |-> <<"I", "r">>, cost |-> 3]>>))

\* C33: parse_single ends by returning Ok or an error value and never
\* aborts: a cost line before any fn= line, a calls= line with no pending
\* record or with a count that is no integer, and a cost line after cob=,
\* cfi= or cfl= without a cfn= line all yield an error value
C33_NeverAborts == pc = "done" => result.kind = "Returned"

\* the callee obj and the callee file that are waiting for a cfn= line
PendingObj == IF cfn_record.some THEN cfn_record.val.obj ELSE None
PendingFile == IF cfn_record.some THEN cfn_record.val.file ELSE None

\* the text after the first separator of t
ValueOfText(t) == SubSeq(t, FirstIndex(t, "=") + 1, Len(t))

\* t is a directive with one of the keys
IsDirective(t, keys) == ~IsBlankOrComment(t) /\ HasKey(t, keys)

\* a step of the loop that reads a line and does not end the call
LoopStep == ReadStep /\ pc' = "body"

\* C34 as stated: the value of a cob=, cfi= or cfl= line waits for the
\* first cfn= line after it, whatever is read in between, and that cfn=
\* line builds the callee Id with it
C34_ValueWaitsForCfn ==
    [][LoopStep =>
         /\ (PendingObj.some /\ ~IsDirective(line', {K_cob})) =>
               IF IsDirective(line', {K_cfn})
               THEN cfn_record'.val.id.val.obj = PendingObj
               ELSE PendingObj' = PendingObj
         /\ (PendingFile.some /\ ~IsDirective(line', {K_cfi, K_cfl})) =>
               IF IsDirective(line', {K_cfn})
               THEN cfn_record'.val.id.val.file = PendingFile
               ELSE PendingFile' = PendingFile]_vars

\* C34, amended: a cfn= line builds the callee Id from the waiting callee
\* obj, else the current obj, the waiting callee file, else the current
\* file, and its name, and leaves no value waiting; a cob=, cfi= or cfl=
\* line makes its value wait; a cost line drops the record with the values
\* that wait; no other line changes what waits; none of these directives
\* changes the current id
C34_CalleeIdBuilt ==
    [][LoopStep =>
         CASE IsDirective(line', {K_cfn}) ->
                  /\ cfn_record'.some
                  /\ cfn_record'.val.id =
                        Some(Id(IF PendingObj.some THEN PendingObj ELSE current_id.obj,
                                IF PendingFile.some THEN PendingFile ELSE current_id.file,
                                ValueOfText(line')))
                  /\ PendingObj' = None
                  /\ PendingFile' = None
                  /\ current_id' = current_id
           [] IsDirective(line', {K_cob}) ->
                  /\ PendingObj' = PathOf(Some(ValueOfText(line')))
                  /\ PendingFile' = PendingFile
                  /\ current_id' = current_id
           [] IsDirective(line', {K_cfi, K_cfl}) ->
                  /\ PendingFile' = PathOf(Some(ValueOfText(line')))
                  /\ PendingObj' = PendingObj
                  /\ current_id' = current_id
           [] CostStep -> cfn_record' = None
           [] OTHER -> PendingObj' = PendingObj /\ PendingFile' = PendingFile]_vars

\* ob=/r/o, cob=/r/p, cfn=g: the callee Id holds the callee obj of the cob=
\* line, no value waits, and the current obj is the one of the ob= line
C34_Witness ==
    /\ pc = "body"
    /\ lines_read = 3
    /\ line = L_cfn
    /\ current_id.obj = PathOf(Some(ValueOfText(L_ob)))
    /\ cfn_record.some
    /\ cfn_record.val.id =
          Some(Id(PathOf(Some(ValueOfText(L_cob))), None, <<"g">>))
    /\ cfn_record.val.id.val.obj # current_id.obj
    /\ PendingObj = None

\* C35: in every parse result a resolved sentinel_key is a key of the
\* returned map, so the metrics of the sentinel function can be looked up
\* with it
C35_SentinelKeyInMap ==
    (result.kind = "Returned" /\ result.value.ok
        /\ result.value.val.sentinel_key.some) =>
        result.value.val.sentinel_key.val \in DOMAIN result.value.val.map

\* C36: the ordering of SourcePath is consistent with its equality: two
\* values compare as Equal exactly when they are equal
C36_OrderConsistentWithEq ==
    call_args.fn = "cmp" /\ call_result.some =>
        (call_result.val = "Equal" <=> call_args.self = call_args.other)

\* the key of a raw argument, if it has one, and its value
KeyOfArgument(arg) ==
    LET split == SplitOnce(Trim(arg), "=") IN
    IF split.some THEN Some(Trim(split.val.key)) ELSE None

ValueOfArgument(arg) == Trim(SplitOnce(Trim(arg), "=").val.value)

\* the last argument of args with the key, 0 if there is none
LastOccurrence(args, key) ==
    LET set == {i \in 1..Len(args) : KeyOfArgument(args[i]) = Some(key)} IN
    IF set = {} THEN 0 ELSE CHOOSE i \in set : \A j \in set : j <= i

\* the options with a text, the options with yes or no, and their fields
TextOptions == {<<O_I1, "i1">>, <<O_D1, "d1">>, <<O_LL, "ll">>, <<O_fair_sched, "fair_sched">>}

YesnoOptions ==
    {<<O_cache_sim, "cache_sim">>, <<O_dump_instr, "dump_instr">>,
     <<O_dump_line, "dump_line">>, <<O_trace_children, "trace_children">>,
     <<O_separate_threads, "separate_threads">>}

OptionKeys == {option[1] : option \in TextOptions \cup YesnoOptions}

\* the values of the --toggle-collect arguments of args, in their order
TogglesOf(args) ==
    LET toggles == SelectSeq(args,
                       LAMBDA arg : KeyOfArgument(arg) = Some(O_toggle_collect))
    IN [i \in 1..Len(toggles) |-> ValueOfArgument(toggles[i])]

\* an argument that is passed through: a key=value argument with an unknown
\* key, or an unknown argument that starts with a dash
IsPassedThrough(arg) ==
    IF KeyOfArgument(arg).some
    THEN KeyOfArgument(arg).val \notin OptionKeys \cup {O_toggle_collect} \cup IgnoredKeys
    ELSE /\ StartsWith(arg, <<"-">>)
         /\ arg \notin {O_v, O_verbose}
         /\ Trim(arg) \notin IgnoredFlags

\* the sequence in the opposite order
Reversed(sequence) == [i \in 1..Len(sequence) |-> sequence[Len(sequence) + 1 - i]]

\* C37: after a try_update that has not failed every option holds the value
\* of its last occurrence, and the value it had when there is none; the
\* toggles are the ones held before, then the ones of the arguments in their
\* order, and every toggle inserted by insert_toggle_collect is before them;
\* the unknown key=value and dash arguments are passed through in their
\* order and nothing else is; the ToolArgs list the toggles in that order
\* and then the arguments passed through
C37_TryUpdate ==
    (call_args.fn = "try_update" /\ call_result.some /\ ~call_result.val.error.some) =>
        LET self == call_args.self
            args == call_args.args
            updated == call_result.val.args
            final == call_result.val.final_args
            toggles == Reversed(call_args.inserted) \o self.toggle_collect \o TogglesOf(args)
            passed == self.other \o SelectSeq(args, IsPassedThrough)
        IN /\ \A option \in TextOptions :
                 updated[option[2]] =
                     IF LastOccurrence(args, option[1]) = 0
                     THEN self[option[2]]
                     ELSE ValueOfArgument(args[LastOccurrence(args, option[1])])
           /\ \A option \in YesnoOptions :
                 updated[option[2]] =
                     IF LastOccurrence(args, option[1]) = 0
                     THEN self[option[2]]
                     ELSE ValueOfArgument(args[LastOccurrence(args, option[1])]) = Yes
           /\ updated.toggle_collect = self.toggle_collect \o TogglesOf(args)
           /\ final.toggle_collect = toggles
           /\ updated.other = passed
           /\ final.other = passed
           /\ Skip(call_result.val.final_tool_args.val.other, 10) =
                 [i \in 1..Len(toggles) |-> KeyValue(O_toggle_collect, toggles[i])]
                     \o passed

\* --I1=a, --I1 = b, --toggle-collect=t after an inserted toggle m and
\* before an inserted toggle n: the option holds b and the toggles are
\* n, m, t in the arguments and in the ToolArgs
C37_Witness ==
    /\ call_args.fn = "try_update"
    /\ call_args.args = <<<<"-", "-", "I", "1", "=", "a">>, <<"-", "-", "I", "1", " ", "=", " ", "b">>, <<"-", "-", "t", "o", "g", "g", "l", "e", "-", "c", "o", "l", "l", "e", "c", "t", "=", "t">>>>
    /\ call_args.inserted = <<<<"n">>>>
    /\ call_result.some
    /\ ~call_result.val.error.some
    /\ call_result.val.final_args.i1 = <<"b">>
    /\ call_result.val.final_args.toggle_collect = <<<<"n">>, <<"m">>, <<"t">>>>
    /\ Len(call_result.val.final_tool_args.val.other) = 13

(***************************************************************************)
(* C38: after the header the loop skips every line without '=' until the    *)
(* first line that holds one; that line is processed as the first line of   *)
(* the body, the switch from the header to the body happens at most once    *)
(* and is never undone, and a cost line read before the switch contributes  *)
(* to no entry.  Blank and comment lines are skipped before the line is     *)
(* looked at, with or without '='.                                          *)
(***************************************************************************)
StartsBody(t) == ~IsBlankOrComment(t) /\ HasSeparator(t)

C38_HeaderEndsAtFirstDirective ==
    /\ [][(ReadStep /\ is_header /\ ~StartsBody(line')) =>
            /\ pc' = "body"
            /\ result' = result
            /\ UNCHANGED <<is_header, current_id, cfn_record, cfn_totals, fn_totals,
                           sentinel_key>>]_vars
    /\ [][(ReadStep /\ is_header /\ StartsBody(line')) =>
            /\ pc' = "body" => ~is_header'
            /\ IsDirective(line', {K_ob}) =>
                  /\ pc' = "body"
                  /\ current_id'.obj = PathOf(Some(ValueOfText(line')))
            /\ IsDirective(line', {K_fl, K_fi, K_fe}) =>
                  /\ pc' = "body"
                  /\ current_id'.file = PathOf(Some(ValueOfText(line')))
            /\ IsDirective(line', {K_fn}) =>
                  /\ pc' = "body"
                  /\ current_id'.func = Some(ValueOfText(line'))
            /\ IsDirective(line', {K_jump}) =>
                  /\ pc' = "body"
                  /\ current_id' = current_id
            /\ UNCHANGED <<cfn_totals, fn_totals>>]_vars
    /\ [][(pc = "body" /\ pc' = "body" /\ ~is_header) => ~is_header']_vars
    /\ []((pc = "body" /\ is_header) =>
            (fn_totals = EmptyMap /\ cfn_totals = EmptyMap))

\* 0 3 4, a comment with '=', fn=f, 0 3 4: the first two lines are skipped,
\* fn=f ends the header, and the entry of f holds the last line alone
C38_Witness ==
    /\ pc = "body"
    /\ trace = Some(<<L_cost, L_comment, L_fn_f, L_cost>>)
    /\ ~is_header
    /\ Len(metrics_prototype.val) = 1
    /\ DOMAIN fn_totals = {CurrentFunction}
    /\ positions_prototype.val = <<<<"l", "i", "n", "e">>>>
    /\ fn_totals[CurrentFunction].metrics[1].cost = 3

====
